---- MODULE Spec2Model ----
(***************************************************************************)
(* Model of the AurelAI request pipeline: the client-side aiService        *)
(* (services/ai.ts), the serverless proxy handler (api/chat.ts) and the    *)
(* part of the zustand store (store/useStore.ts) the pipeline reads.       *)
(*                                                                         *)
(* Texts are TLA+ strings; String.prototype.includes / startsWith / slice  *)
(* are computed character by character with Len and SubSeq.                *)
(***************************************************************************)
EXTENDS Integers, Sequences, FiniteSets, TLC

VARIABLES
    apiKey,        \* store.apiKey                      (useStore.ts:56)
    openFiles,     \* store.openFiles                   (useStore.ts:58)
    language,      \* store.language                    (useStore.ts:55)
    serverKey,     \* process.env.OPENAI_API_KEY        (api/chat.ts:108)
    pc,            \* position of the aiService.sendMessage invocation
    key,           \* the invocation's local const apiKey (ai.ts sendMessage)
    body,          \* JSON body of the POST to /api/chat
    net,           \* the proxy request / response in flight
    hpc,           \* position of the /api/chat handler
    proxyReply,    \* the response the client's fetch resolved with
    proxyFailure,  \* what the catch (proxyError) block received
    directRaw,     \* raw failure of the direct provider call
    result,        \* settled value of the promise sendMessage returned
    trace,         \* calls issued / checks made by this invocation, in order
    sends,         \* number of sendMessage invocations so far
    activeFileId,  \* store.activeFileId                (useStore.ts:59)
    nextFileId,    \* number of ids crypto.randomUUID() has handed out
    trunc,         \* one application of truncateText: arguments and result
    asm,           \* one assembly of the enhanced context: arguments and result
    hist,          \* one hand-over of a thread's messages as history: messages and what is sent
    prompt,        \* one application of buildSystemPrompt: arguments and result
    threads,       \* store.threads                     (useStore.ts:52)
    activeThreadId,\* store.activeThreadId, 0 for null  (useStore.ts:54)
    editorThreads, \* id and range of the threads the editor's mouse handler closed over
    isTyping,      \* ThreadView's isTyping state       (ThreadView.tsx, useState)
    inflight,      \* the handleSend calls awaiting aiService.sendMessage
    nextThreadId,  \* the ids crypto.randomUUID has given to threads so far, plus one
    nextRequest,   \* the handleSend calls made so far, plus one
    resolved,      \* the requests answered so far, in the order of their answers
    panel,         \* useResizablePanel: chatPanelHeight and isDragging
    req            \* the provider request of a call, as each path builds it

\* the variables outside the dispatch pipeline
threadVars == <<threads, activeThreadId, editorThreads, isTyping, inflight,
                nextThreadId, nextRequest, resolved>>

auxVars == <<trunc, asm, hist, prompt, threadVars, panel, req>>

vars == <<apiKey, openFiles, language, serverKey, pc, key, body, net, hpc,
          proxyReply, proxyFailure, directRaw, result, trace, sends,
          activeFileId, nextFileId, auxVars>>

dispatchVars == <<apiKey, openFiles, language, serverKey, pc, key, body, net, hpc,
                  proxyReply, proxyFailure, directRaw, result, trace, sends,
                  activeFileId, nextFileId>>

storeVars == <<apiKey, openFiles, language, activeFileId, nextFileId>>
callVars == <<pc, key, body, proxyReply, proxyFailure, directRaw, result, trace, sends>>

(***************************************************************************)
(* Bounds of the model.                                                    *)
(***************************************************************************)
MaxSends == 2
MaxOpenFiles == 1
MaxFileIds == 2

(***************************************************************************)
(* JavaScript values.                                                      *)
(***************************************************************************)
\* string | null : null is a record of its own, a string is wrapped.
Null == [isNull |-> TRUE, v |-> ""]
Str(s) == [isNull |-> FALSE, v |-> s]

\* !x for x : string | null  (null and "" are falsy)
Falsy(x) == x.isNull \/ x.v = ""

\* String.prototype.includes
Includes(s, sub) ==
    \E i \in 1..(Len(s) - Len(sub) + 1) : SubSeq(s, i, i + Len(sub) - 1) = sub

\* startsWith confused with includes: the prefix may occur anywhere
StartsWith_Anywhere(s, prefix) == Includes(s, prefix)

\* String.prototype.startsWith
StartsWith(s, prefix) ==
    Len(s) >= Len(prefix) /\ SubSeq(s, 1, Len(prefix)) = prefix

\* String.prototype.lastIndexOf for a one-character needle, 0-based, -1 if absent
LastIndexOf(s, ch) ==
    LET hits == {i \in 1..Len(s) : SubSeq(s, i, i) = ch}
    IN  IF hits = {} THEN -1
        ELSE (CHOOSE i \in hits : \A j \in hits : j <= i) - 1

\* Array.prototype.join
RECURSIVE Join(_, _)
Join(parts, sep) ==
    IF Len(parts) = 0 THEN ""
    ELSE IF Len(parts) = 1 THEN parts[1]
    ELSE parts[1] \o sep \o Join(Tail(parts), sep)

\* Array.prototype.slice(0, n)
SliceFirst(seq, n) == SubSeq(seq, 1, IF Len(seq) < n THEN Len(seq) ELSE n)

\* Array.prototype.slice(-n)
SliceLast(seq, n) ==
    SubSeq(seq, (IF Len(seq) > n THEN Len(seq) - n + 1 ELSE 1), Len(seq))

(***************************************************************************)
(* services/ai.ts : constants and the text truncator.                      *)
(***************************************************************************)
MAX_CODE_CONTEXT_LENGTH == 15000
MAX_FILE_CONTEXT_LENGTH == 5000
MAX_HISTORY_MESSAGES == 10
maxFiles == 5

TruncationMarker == "\n\n... [truncated - code too long]"

\* the length test off by one: a text of exactly maxLength is cut as well
truncateText_Strict(text, maxLength) ==
    IF Len(text) < maxLength
    THEN [text |-> text, truncated |-> FALSE]
    ELSE LET truncated == SubSeq(text, 1, maxLength)
             lastNewline == LastIndexOf(truncated, "\n")
             cutPoint == IF lastNewline * 10 > maxLength * 8
                         THEN lastNewline ELSE maxLength
         IN  [text |-> SubSeq(truncated, 1, cutPoint) \o TruncationMarker,
              truncated |-> TRUE]

\* the line-break is not looked for: the cut is always at maxLength
truncateText_HardCut(text, maxLength) ==
    IF Len(text) <= maxLength
    THEN [text |-> text, truncated |-> FALSE]
    ELSE [text |-> SubSeq(text, 1, maxLength) \o TruncationMarker,
          truncated |-> TRUE]

truncateText(text, maxLength) ==
    IF Len(text) <= maxLength
    THEN [text |-> text, truncated |-> FALSE]
    ELSE LET truncated == SubSeq(text, 1, maxLength)
             lastNewline == LastIndexOf(truncated, "\n")
             \* lastNewline > maxLength * 0.8
             cutPoint == IF lastNewline * 10 > maxLength * 8
                         THEN lastNewline ELSE maxLength
         IN  [text |-> SubSeq(truncated, 1, cutPoint) \o TruncationMarker,
              truncated |-> TRUE]

CodeTruncatedNote ==
    "\n\n> Note: The selected code was truncated due to length. Focus on the visible portion."

\* The markdown code fence of the file sections.  The source writes three
\* backquotes; the TLA+ lexer has no backquote inside strings, so the fence
\* is spelled with three apostrophes here.
Fence == "'''"

\* the files cut with the budget of the primary context
FileSection_CodeBudget(f) ==
    LET t == truncateText(f.content, MAX_CODE_CONTEXT_LENGTH)
        truncateIndicator == IF t.truncated THEN " [truncated]" ELSE ""
    IN  "\n### File: " \o f.name \o " (" \o f.language \o ")" \o truncateIndicator
        \o "\n" \o Fence \o f.language \o "\n" \o t.text \o "\n" \o Fence

\* one element of limitedFiles.map(f => ...)
FileSection(f) ==
    LET t == truncateText(f.content, MAX_FILE_CONTEXT_LENGTH)
        truncateIndicator == IF t.truncated THEN " [truncated]" ELSE ""
    IN  "\n### File: " \o f.name \o " (" \o f.language \o ")" \o truncateIndicator
        \o "\n" \o Fence \o f.language \o "\n" \o t.text \o "\n" \o Fence

\* every open file is given a section, however many there are
EnhancedContext_NoLimit(codeContext, files) ==
    LET t == truncateText(codeContext, MAX_CODE_CONTEXT_LENGTH)
        note1 == IF t.truncated THEN CodeTruncatedNote ELSE ""
        limitedFiles == files
        filesContext == Join([i \in 1..Len(limitedFiles) |-> FileSection(limitedFiles[i])], "\n")
        note2 == IF Len(files) > maxFiles
                 THEN "\n> Note: Only showing " \o ToString(maxFiles) \o " of "
                      \o ToString(Len(files)) \o " open files for context."
                 ELSE ""
        truncationNote == note1 \o (IF Len(files) > 0 THEN note2 ELSE "")
        base == IF Len(files) > 0
                THEN t.text \o "\n\n## Other Open Files:\n" \o filesContext
                ELSE t.text
    IN  base \o truncationNote

\* the notes are put before the file sections
EnhancedContext_NotesFirst(codeContext, files) ==
    LET t == truncateText(codeContext, MAX_CODE_CONTEXT_LENGTH)
        note1 == IF t.truncated THEN CodeTruncatedNote ELSE ""
        limitedFiles == SliceFirst(files, maxFiles)
        filesContext == Join([i \in 1..Len(limitedFiles) |-> FileSection(limitedFiles[i])], "\n")
        note2 == IF Len(files) > maxFiles
                 THEN "\n> Note: Only showing " \o ToString(maxFiles) \o " of "
                      \o ToString(Len(files)) \o " open files for context."
                 ELSE ""
        truncationNote == note1 \o (IF Len(files) > 0 THEN note2 ELSE "")
        base == IF Len(files) > 0
                THEN "\n\n## Other Open Files:\n" \o filesContext
                ELSE ""
    IN  t.text \o truncationNote \o base

\* the enhancedContext sendMessage assembles from codeContext and the open files
EnhancedContext(codeContext, files) ==
    LET t == truncateText(codeContext, MAX_CODE_CONTEXT_LENGTH)
        note1 == IF t.truncated THEN CodeTruncatedNote ELSE ""
        limitedFiles == SliceFirst(files, maxFiles)
        filesContext == Join([i \in 1..Len(limitedFiles) |-> FileSection(limitedFiles[i])], "\n")
        note2 == IF Len(files) > maxFiles
                 THEN "\n> Note: Only showing " \o ToString(maxFiles) \o " of "
                      \o ToString(Len(files)) \o " open files for context."
                 ELSE ""
        truncationNote == note1 \o (IF Len(files) > 0 THEN note2 ELSE "")
        base == IF Len(files) > 0
                THEN t.text \o "\n\n## Other Open Files:\n" \o filesContext
                ELSE t.text
    IN  base \o truncationNote

\* the oldest messages are kept instead of the most recent
limitedHistory_Oldest(history) == SliceFirst(history, MAX_HISTORY_MESSAGES)

\* history.slice(-MAX_HISTORY_MESSAGES)
limitedHistory(history) == SliceLast(history, MAX_HISTORY_MESSAGES)

(***************************************************************************)
(* services/ai.ts : messages of the errors sendMessage throws itself.      *)
(***************************************************************************)
CredentialMissingMsg == "API key required. Please add your OpenAI API key in Settings."
CredentialInvalidMsg == "Invalid API key. OpenAI API keys start with \"sk-\"."
RateLimitedMsg == "Rate limit exceeded. Please wait a moment and try again."
ContextTooLargeMsg == "The code is too long to analyze. Try selecting a smaller portion."
CredentialRejectedMsg == "Invalid API key. Please check your settings."

\* every proxy failure triggers the fallback
isProxyUnavailable_Always(proxyMessage) == Len(proxyMessage) >= 0

\* the "not configured" signal of the handler is not recognised
isProxyUnavailable_NoSignal(proxyMessage) ==
    \/ Includes(proxyMessage, "404")
    \/ Includes(proxyMessage, "Failed to fetch")

\* any message that starts like a failure is taken for an absent proxy
isProxyUnavailable_FailedPrefix(proxyMessage) ==
    \/ Includes(proxyMessage, "not configured")
    \/ Includes(proxyMessage, "404")
    \/ Includes(proxyMessage, "Failed to")

\* const isProxyUnavailable = proxyMessage.includes(...) || ... || ...
isProxyUnavailable(proxyMessage) ==
    \/ Includes(proxyMessage, "not configured")
    \/ Includes(proxyMessage, "404")
    \/ Includes(proxyMessage, "Failed to fetch")

\* the checks of the catch block in another order: "API key" first
classifyDirect_KeyFirst(message) ==
    IF Includes(message, "API key") THEN CredentialRejectedMsg
    ELSE IF Includes(message, "rate limit") THEN RateLimitedMsg
    ELSE IF Includes(message, "context length") \/ Includes(message, "maximum")
         THEN ContextTooLargeMsg
    ELSE message

\* the catch block around the direct provider call: the message of the error
\* it throws for a provider failure with the given message
classifyDirect(message) ==
    IF Includes(message, "rate limit") THEN RateLimitedMsg
    ELSE IF Includes(message, "context length") \/ Includes(message, "maximum")
         THEN ContextTooLargeMsg
    ELSE IF Includes(message, "API key") THEN CredentialRejectedMsg
    ELSE message

(***************************************************************************)
(* api/chat.ts : the replies of the handler.                               *)
(***************************************************************************)
\* a response of the proxy endpoint.  error = Null: the body is not JSON or
\* carries no error field.  raw: the provider failure behind the reply (kept
\* for the properties only; the client never sees it).
Reply(status, error, content, raw) ==
    [status |-> status, error |-> error, content |-> content, raw |-> raw]

NoReply == Reply(0, Null, "", Null)

MethodNotAllowedReply == Reply(405, Str("Method not allowed"), "", Null)
NotConfiguredMsg == "OpenAI API key not configured on server"
NotConfiguredReply == Reply(500, Str(NotConfiguredMsg), "", Null)
MissingFieldsMsg == "Missing required fields: codeContext, userMessage"
MissingFieldsReply == Reply(400, Str(MissingFieldsMsg), "", Null)
ServerRateLimitedMsg == "Rate limit exceeded. Please wait a moment and try again."
ServerTooLongMsg == "The code is too long to analyze. Try selecting a smaller portion."
ServerKeyRejectedMsg == "Invalid API key configured on server."
ServerFailedMsg == "Failed to get AI response. Please try again."

\* the handler forwards the provider's message when no category matches
classifyServer_Forwarding(message) ==
    IF Includes(message, "rate limit")
    THEN Reply(429, Str(ServerRateLimitedMsg), "", Str(message))
    ELSE IF Includes(message, "context length") \/ Includes(message, "maximum")
         THEN Reply(400, Str(ServerTooLongMsg), "", Str(message))
    ELSE IF Includes(message, "API key")
         THEN Reply(401, Str(ServerKeyRejectedMsg), "", Str(message))
    ELSE Reply(500, Str(message), "", Str(message))

\* the catch block of the handler: the reply for a provider failure
classifyServer(message) ==
    IF Includes(message, "rate limit")
    THEN Reply(429, Str(ServerRateLimitedMsg), "", Str(message))
    ELSE IF Includes(message, "context length") \/ Includes(message, "maximum")
         THEN Reply(400, Str(ServerTooLongMsg), "", Str(message))
    ELSE IF Includes(message, "API key")
         THEN Reply(401, Str(ServerKeyRejectedMsg), "", Str(message))
    ELSE Reply(500, Str(ServerFailedMsg), "", Str(message))

\* completion.choices[0].message.content || "No response generated."
ContentOrDefault(content) == IF content = "" THEN "No response generated." ELSE content

(***************************************************************************)
(* The environment: what the network, the hosting platform and the model   *)
(* provider can answer.                                                    *)
(***************************************************************************)
\* Messages of the TypeError a rejected fetch carries.  The text is chosen by
\* the browser: Chromium "Failed to fetch", Firefox "NetworkError when
\* attempting to fetch resource.", Safari "Load failed".
FetchFailureMessages ==
    {"Failed to fetch", "NetworkError when attempting to fetch resource.", "Load failed"}

\* Statuses the platform answers with when the function is absent or broke
\* before replying; these replies carry no JSON body.
PlatformStatuses == {404, 500, 504}

\* Messages of the errors the provider SDK rejects with.
ProviderFailures ==
    {"429 Rate limit reached for gpt-4o",
     "rate limit exceeded",
     "400 This model's maximum context length is 128000 tokens",
     "context length exceeded",
     "rate limit: maximum requests per API key",
     "maximum usage for this API key",
     "401 Incorrect API key provided",
     "401 invalid api key",
     "404 The model does not exist",
     "Connection error."}

\* Texts the provider generates ("" : a completion with empty content).
ProviderContents == {"Looks good.", ""}

\* Values the user saves in the settings dialog.
Keys == {"", "invalid-key", "sk-test", "xsk-1", "sk"}

\* Arguments of sendMessage.
CodeContexts == {"", "const x = 1;"}
UserMessages == {"review this"}
Histories == {<<>>, <<[role |-> "user", content |-> "hi"]>>}

\* Files the user opens.
Files == {[name |-> "a.ts", content |-> "let a;\nlet b;", language |-> "typescript"]}

(***************************************************************************)
(* Initial state: the store as created, no request yet.                    *)
(***************************************************************************)
NoFailure == [kind |-> "none", message |-> ""]
Pending == [state |-> "pending", via |-> "", value |-> ""]
NoBody == [codeContext |-> "", userMessage |-> "", history |-> <<>>, language |-> ""]
NoRequest == [stage |-> "none", method |-> "", res |-> NoReply]

\* no application of truncateText under way
TruncIdle == trunc = [text |-> "", maxLength |-> 0, done |-> FALSE,
                      out |-> [text |-> "", truncated |-> FALSE]]

\* no assembly of the enhanced context under way
AsmIdle == asm = [codeContext |-> "", files |-> <<>>, done |-> FALSE, out |-> ""]

\* no hand-over of a history under way
HistIdle == hist = [messages |-> <<>>, done |-> FALSE, sent |-> <<>>]

\* no application of buildSystemPrompt under way
PromptIdle == prompt = [codeContext |-> "", language |-> "", done |-> FALSE, out |-> ""]

\* the chat panel as the application starts: no thread, no tab selected, the
\* view not mounted, nothing sent
ThreadsIdle ==
    /\ threads = <<>>
    /\ activeThreadId = 0
    /\ editorThreads = <<>>
    /\ isTyping = FALSE
    /\ inflight = {}
    /\ nextThreadId = 1
    /\ nextRequest = 1
    /\ resolved = <<>>

\* JavaScript numbers: the finite ones (integers, in this model), NaN and
\* the two infinities
Fin(n) == [kind |-> "fin", v |-> n]
NaN == [kind |-> "nan", v |-> 0]
PlusInfinity == [kind |-> "pinf", v |-> 0]
MinusInfinity == [kind |-> "ninf", v |-> 0]

MIN_HEIGHT == 15
MAX_HEIGHT == 80
DEFAULT_HEIGHT == 40

\* the hook as first rendered: useState(DEFAULT_HEIGHT), useState(false)
PanelIdle == panel = [chatPanelHeight |-> Fin(DEFAULT_HEIGHT), isDragging |-> FALSE]

\* no provider request has been built
RequestIdle == req = [stage |-> "none"]

AuxIdle ==
    TruncIdle /\ AsmIdle /\ HistIdle /\ PromptIdle /\ ThreadsIdle /\ PanelIdle /\ RequestIdle

Init ==
    /\ AuxIdle
    /\ apiKey = Null
    /\ openFiles = <<>>
    /\ language = "javascript"
    /\ activeFileId = Null
    /\ nextFileId = 0
    /\ serverKey \in {Null, Str(""), Str("sk-server")}
    /\ pc = "idle"
    /\ key = Null
    /\ body = NoBody
    /\ net = NoRequest
    /\ hpc = "idle"
    /\ proxyReply = NoReply
    /\ proxyFailure = NoFailure
    /\ directRaw = Null
    /\ result = Pending
    /\ trace = <<>>
    /\ sends = 0

(***************************************************************************)
(* store/useStore.ts                                                       *)
(***************************************************************************)
setApiKey(k) ==
    /\ apiKey' = Str(k)
    /\ UNCHANGED <<openFiles, language, activeFileId, nextFileId, serverKey,
                   net, hpc>>
    /\ UNCHANGED callVars
    /\ UNCHANGED auxVars

addOpenFile(file) ==
    /\ Len(openFiles) < MaxOpenFiles
    /\ nextFileId < MaxFileIds
    /\ LET id == "id" \o ToString(nextFileId + 1)
       IN  /\ openFiles' = Append(openFiles,
                                  [id |-> id, name |-> file.name,
                                   content |-> file.content,
                                   language |-> file.language])
           /\ activeFileId' = Str(id)
    /\ nextFileId' = nextFileId + 1
    /\ UNCHANGED <<apiKey, language, serverKey, net, hpc>>
    /\ UNCHANGED callVars
    /\ UNCHANGED auxVars

\* Array.prototype.filter(f => f.id !== id)
RECURSIVE WithoutId(_, _)
WithoutId(files, id) ==
    IF Len(files) = 0 THEN <<>>
    ELSE IF files[1].id = id THEN WithoutId(Tail(files), id)
    ELSE <<files[1]>> \o WithoutId(Tail(files), id)

removeOpenFile(id) ==
    /\ openFiles' = WithoutId(openFiles, id)
    /\ activeFileId' =
         IF activeFileId = Str(id)
         THEN (IF Len(openFiles) > 0 /\ openFiles[1].id # ""
               THEN Str(openFiles[1].id) ELSE Null)
         ELSE activeFileId
    /\ UNCHANGED <<apiKey, language, nextFileId, serverKey, net, hpc>>
    /\ UNCHANGED callVars
    /\ UNCHANGED auxVars

(***************************************************************************)
(* services/ai.ts : aiService.sendMessage                                  *)
(***************************************************************************)
\* response.ok
IsOk(status) == status \in 200..299

\* the test of response.ok inverted
sendViaProxy_Inverted(res) ==
    IF IsOk(res.status)
    THEN [threw |-> TRUE,
          value |-> IF Falsy(res.error)
                    THEN "Server error: " \o ToString(res.status)
                    ELSE res.error.v]
    ELSE [threw |-> FALSE, value |-> res.content]

\* sendViaProxy once fetch has resolved with the response res: the value it
\* returns, or the message of the Error it throws
sendViaProxy(res) ==
    IF ~IsOk(res.status)
    THEN [threw |-> TRUE,
          value |-> IF Falsy(res.error)
                    THEN "Server error: " \o ToString(res.status)
                    ELSE res.error.v]
    ELSE [threw |-> FALSE, value |-> res.content]

Resolved(via, value) == [state |-> "resolved", via |-> via, value |-> value]
Rejected(via, message) == [state |-> "rejected", via |-> via, value |-> message]

\* the key is validated before the proxy is tried
sendMessage_KeyFirst(codeContext, userMessage, history) ==
    /\ pc \in {"idle", "resolved", "rejected"}
    /\ sends < MaxSends
    /\ key' = apiKey
    /\ body' = [codeContext |-> EnhancedContext(codeContext, openFiles),
                userMessage |-> userMessage,
                history |-> limitedHistory(history),
                language |-> language]
    /\ IF Falsy(apiKey)
       THEN /\ net' = net
            /\ trace' = <<"cred_check">>
            /\ pc' = "rejected"
            /\ result' = Rejected("cred_missing", CredentialMissingMsg)
       ELSE /\ net' = [stage |-> "request", method |-> "POST", res |-> NoReply]
            /\ trace' = <<"cred_check", "proxy_post">>
            /\ pc' = "proxy_wait"
            /\ result' = Pending
    /\ proxyReply' = NoReply
    /\ proxyFailure' = NoFailure
    /\ directRaw' = Null
    /\ sends' = sends + 1
    /\ UNCHANGED <<serverKey, hpc>>
    /\ UNCHANGED storeVars
    /\ UNCHANGED auxVars

\* from the call up to the first await: the store is read, the context is
\* assembled and the POST to /api/chat is issued
sendMessage(codeContext, userMessage, history) ==
    /\ pc \in {"idle", "resolved", "rejected"}
    /\ sends < MaxSends
    /\ key' = apiKey
    /\ body' = [codeContext |-> EnhancedContext(codeContext, openFiles),
                userMessage |-> userMessage,
                history |-> limitedHistory(history),
                language |-> language]
    /\ net' = [stage |-> "request", method |-> "POST", res |-> NoReply]
    /\ trace' = <<"proxy_post">>
    /\ pc' = "proxy_wait"
    /\ proxyReply' = NoReply
    /\ proxyFailure' = NoFailure
    /\ directRaw' = Null
    /\ result' = Pending
    /\ sends' = sends + 1
    /\ UNCHANGED <<serverKey, hpc>>
    /\ UNCHANGED storeVars
    /\ UNCHANGED auxVars

\* the provider call is issued before the key is looked at
CatchProxyError_CallThenCheck(kind, proxyMessage) ==
    /\ proxyFailure' = [kind |-> kind, message |-> proxyMessage]
    /\ IF ~isProxyUnavailable(proxyMessage)
       THEN /\ result' = Rejected("proxy_error", proxyMessage)
            /\ pc' = "rejected"
            /\ trace' = trace
       ELSE IF Falsy(key)
       THEN /\ result' = Rejected("cred_missing", CredentialMissingMsg)
            /\ pc' = "rejected"
            /\ trace' = trace \o <<"provider_call", "cred_check">>
       ELSE IF ~StartsWith(key.v, "sk-")
       THEN /\ result' = Rejected("cred_invalid", CredentialInvalidMsg)
            /\ pc' = "rejected"
            /\ trace' = trace \o <<"provider_call", "cred_check">>
       ELSE /\ result' = result
            /\ pc' = "direct_wait"
            /\ trace' = trace \o <<"provider_call", "cred_check">>

\* the key is read from the store anew when the proxy has failed
CatchProxyError_ReadsStore(kind, proxyMessage) ==
    /\ proxyFailure' = [kind |-> kind, message |-> proxyMessage]
    /\ IF ~isProxyUnavailable(proxyMessage)
       THEN /\ result' = Rejected("proxy_error", proxyMessage)
            /\ pc' = "rejected"
            /\ trace' = trace
       ELSE IF Falsy(apiKey)
       THEN /\ result' = Rejected("cred_missing", CredentialMissingMsg)
            /\ pc' = "rejected"
            /\ trace' = Append(trace, "cred_check")
       ELSE IF ~StartsWith(apiKey.v, "sk-")
       THEN /\ result' = Rejected("cred_invalid", CredentialInvalidMsg)
            /\ pc' = "rejected"
            /\ trace' = Append(trace, "cred_check")
       ELSE /\ result' = result
            /\ pc' = "direct_wait"
            /\ trace' = trace \o <<"cred_check", "provider_call">>

\* the catch (proxyError) block, up to its throw or to the await of the
\* direct provider call
CatchProxyError(kind, proxyMessage) ==
    /\ proxyFailure' = [kind |-> kind, message |-> proxyMessage]
    /\ IF ~isProxyUnavailable(proxyMessage)
       THEN /\ result' = Rejected("proxy_error", proxyMessage)
            /\ pc' = "rejected"
            /\ trace' = trace
       ELSE IF Falsy(key)
       THEN /\ result' = Rejected("cred_missing", CredentialMissingMsg)
            /\ pc' = "rejected"
            /\ trace' = Append(trace, "cred_check")
       ELSE IF ~StartsWith(key.v, "sk-")
       THEN /\ result' = Rejected("cred_invalid", CredentialInvalidMsg)
            /\ pc' = "rejected"
            /\ trace' = Append(trace, "cred_check")
       ELSE /\ result' = result
            /\ pc' = "direct_wait"
            /\ trace' = trace \o <<"cred_check", "provider_call">>

\* a failed fetch is tried once more before the catch block is entered
fetchRejects_Retry(m) ==
    /\ pc = "proxy_wait"
    /\ net.stage \in {"request", "response"}
    /\ IF Len(trace) = 1
       THEN /\ net' = [stage |-> "request", method |-> "POST", res |-> NoReply]
            /\ trace' = Append(trace, "proxy_post")
            /\ UNCHANGED <<pc, proxyFailure, result>>
       ELSE /\ net' = NoRequest
            /\ CatchProxyError("network", m)
    /\ UNCHANGED <<key, body, proxyReply, directRaw, sends, serverKey, hpc>>
    /\ UNCHANGED storeVars
    /\ UNCHANGED auxVars

\* fetch rejects: no response was received
fetchRejects(m) ==
    /\ pc = "proxy_wait"
    /\ net.stage \in {"request", "response"}
    /\ net' = NoRequest
    /\ CatchProxyError("network", m)
    /\ UNCHANGED <<key, body, proxyReply, directRaw, sends, serverKey, hpc>>
    /\ UNCHANGED storeVars
    /\ UNCHANGED auxVars

\* fetch resolves with the response in flight
proxyResponds ==
    /\ pc = "proxy_wait"
    /\ net.stage = "response"
    /\ net' = NoRequest
    /\ proxyReply' = net.res
    /\ LET r == sendViaProxy(net.res)
       IN  IF r.threw
           THEN CatchProxyError("reply", r.value)
           ELSE /\ result' = Resolved("proxy_ok", r.value)
                /\ pc' = "resolved"
                /\ UNCHANGED <<proxyFailure, trace>>
    /\ UNCHANGED <<key, body, directRaw, sends, serverKey, hpc>>
    /\ UNCHANGED storeVars
    /\ UNCHANGED auxVars

\* OpenAIService.sendMessage resolves
directResolves(content) ==
    /\ pc = "direct_wait"
    /\ result' = Resolved("direct_ok", ContentOrDefault(content))
    /\ pc' = "resolved"
    /\ UNCHANGED <<key, body, proxyReply, proxyFailure, directRaw, trace, sends,
                   serverKey, net, hpc>>
    /\ UNCHANGED storeVars
    /\ UNCHANGED auxVars

\* OpenAIService.sendMessage rejects with an Error of message m
directFails(m) ==
    /\ pc = "direct_wait"
    /\ directRaw' = Str(m)
    /\ result' = Rejected("direct_error", classifyDirect(m))
    /\ pc' = "rejected"
    /\ UNCHANGED <<key, body, proxyReply, proxyFailure, trace, sends,
                   serverKey, net, hpc>>
    /\ UNCHANGED storeVars
    /\ UNCHANGED auxVars

(***************************************************************************)
(* api/chat.ts : handler, and the platform in front of it                  *)
(***************************************************************************)
\* the platform answers instead of the function (no such route, crash, timeout)
platformReplies(status) ==
    /\ net.stage = "request"
    /\ net' = [net EXCEPT !.stage = "response",
                          !.res = Reply(status, Null, "", Null)]
    /\ UNCHANGED <<serverKey, hpc>>
    /\ UNCHANGED storeVars
    /\ UNCHANGED callVars
    /\ UNCHANGED auxVars

\* the handler without its check of the required fields
handler_NoFieldCheck ==
    /\ net.stage = "request"
    /\ hpc = "idle"
    /\ IF net.method # "POST"
       THEN /\ net' = [net EXCEPT !.stage = "response", !.res = MethodNotAllowedReply]
            /\ hpc' = hpc
       ELSE IF Falsy(serverKey)
       THEN /\ net' = [net EXCEPT !.stage = "response", !.res = NotConfiguredReply]
            /\ hpc' = hpc
       ELSE /\ net' = [net EXCEPT !.stage = "handling"]
            /\ hpc' = "provider_wait"
    /\ UNCHANGED serverKey
    /\ UNCHANGED storeVars
    /\ UNCHANGED callVars
    /\ UNCHANGED auxVars

\* handler, from its start to an early reply or to the await of the provider
handler ==
    /\ net.stage = "request"
    /\ hpc = "idle"
    /\ IF net.method # "POST"
       THEN /\ net' = [net EXCEPT !.stage = "response", !.res = MethodNotAllowedReply]
            /\ hpc' = hpc
       ELSE IF Falsy(serverKey)
       THEN /\ net' = [net EXCEPT !.stage = "response", !.res = NotConfiguredReply]
            /\ hpc' = hpc
       ELSE IF body.codeContext = "" \/ body.userMessage = ""
       THEN /\ net' = [net EXCEPT !.stage = "response", !.res = MissingFieldsReply]
            /\ hpc' = hpc
       ELSE /\ net' = [net EXCEPT !.stage = "handling"]
            /\ hpc' = "provider_wait"
    /\ UNCHANGED serverKey
    /\ UNCHANGED storeVars
    /\ UNCHANGED callVars
    /\ UNCHANGED auxVars

\* the provider call of the handler resolves
handlerProviderResolves(content) ==
    /\ hpc = "provider_wait"
    /\ net' = [net EXCEPT !.stage = "response",
                          !.res = Reply(200, Null, ContentOrDefault(content), Null)]
    /\ hpc' = "idle"
    /\ UNCHANGED serverKey
    /\ UNCHANGED storeVars
    /\ UNCHANGED callVars
    /\ UNCHANGED auxVars

\* the provider call of the handler rejects with an Error of message m
handlerProviderFails(m) ==
    /\ hpc = "provider_wait"
    /\ net' = [net EXCEPT !.stage = "response", !.res = classifyServer(m)]
    /\ hpc' = "idle"
    /\ UNCHANGED serverKey
    /\ UNCHANGED storeVars
    /\ UNCHANGED callVars
    /\ UNCHANGED auxVars

(***************************************************************************)
(* The specification.                                                      *)
(***************************************************************************)
Next ==
    \/ \E k \in Keys : setApiKey(k)
    \/ \E f \in Files : addOpenFile(f)
    \/ \E i \in 1..MaxFileIds : removeOpenFile("id" \o ToString(i))
    \/ \E c \in CodeContexts, u \in UserMessages, h \in Histories : sendMessage(c, u, h)
    \/ \E m \in FetchFailureMessages : fetchRejects(m)
    \/ proxyResponds
    \/ \E c \in ProviderContents : directResolves(c)
    \/ \E m \in ProviderFailures : directFails(m)
    \/ \E st \in PlatformStatuses : platformReplies(st)
    \/ handler
    \/ \E c \in ProviderContents : handlerProviderResolves(c)
    \/ \E m \in ProviderFailures : handlerProviderFails(m)

Spec == Init /\ [][Next]_vars

(***************************************************************************)
(* Properties of the dispatch pipeline.                                    *)
(***************************************************************************)
InTrace(e) == \E i \in 1..Len(trace) : trace[i] = e

\* the credential, as the invocation read it, is a string starting with "sk-"
HasSkPrefix(k) == ~k.isNull /\ Len(k.v) >= 3 /\ SubSeq(k.v, 1, 3) = "sk-"

\* the message sendViaProxy throws for a non-2xx reply
ReplyMessage(res) ==
    IF res.error.isNull \/ res.error.v = ""
    THEN "Server error: " \o ToString(res.status)
    ELSE res.error.v

\* C1: every sendMessage invocation issues the POST to /api/chat first: the
\* proxy request is the first entry of the invocation's trace, and every
\* credential check and every direct provider call comes after it, whatever
\* the credential is.
C1_ProxyFirst ==
    /\ pc # "idle" => (Len(trace) >= 1 /\ trace[1] = "proxy_post")
    /\ \A i \in 1..Len(trace) :
          trace[i] \in {"cred_check", "provider_call"}
             => \E j \in 1..(i - 1) : trace[j] = "proxy_post"

\* the scenario of the test: fetch rejects with "Failed to fetch", no key
C1_Witness ==
    /\ proxyFailure = [kind |-> "network", message |-> "Failed to fetch"]
    /\ key = Str("")
    /\ result = Rejected("cred_missing", CredentialMissingMsg)
    /\ trace = <<"proxy_post", "cred_check">>

\* C2 as stated: an invocation that fails with CredentialMissing or
\* CredentialInvalid has issued no network request at all, neither to the
\* proxy nor to the provider.
C2_NoRequestBeforeCredentialFailure ==
    result.via \in {"cred_missing", "cred_invalid"}
       => ~InTrace("proxy_post") /\ ~InTrace("provider_call")

\* C2 amended: an invocation that fails with CredentialMissing or
\* CredentialInvalid has issued exactly one network request, the POST to the
\* proxy, then made the credential check, and has issued no provider call.
C2_CredentialFailureAfterProxyOnly ==
    result.via \in {"cred_missing", "cred_invalid"}
       => /\ trace = <<"proxy_post", "cred_check">>
          /\ result.state = "rejected"
          /\ proxyFailure.kind # "none"

C2_Witness ==
    /\ result = Rejected("cred_invalid", CredentialInvalidMsg)
    /\ key = Str("invalid-key")
    /\ proxyFailure.kind = "reply"

\* a reply of the proxy that reports a concrete failure: a non-2xx status
\* with an error body other than the "not configured" signal, or a non-2xx
\* status other than 404 without a body
RealError(res) ==
    /\ res.status # 0
    /\ res.status \notin 200..299
    /\ IF res.error.isNull
       THEN res.status # 404
       ELSE res.error.v # NotConfiguredMsg

\* C3: when the proxy was reached and reported a concrete failure, the
\* invocation is rejected at once with that error: no credential check is
\* made and no direct provider call is issued.
C3_RealErrorPropagates ==
    RealError(proxyReply)
       => /\ pc = "rejected"
          /\ result = Rejected("proxy_error", ReplyMessage(proxyReply))
          /\ trace = <<"proxy_post">>

\* the proxy answers 429 while a well-formed key is in the store
C3_Witness ==
    /\ proxyReply.status = 429
    /\ HasSkPrefix(key)
    /\ result = Rejected("proxy_error", ServerRateLimitedMsg)

\* C4 as stated: every network-level failure of the proxy call is absorbed:
\* it is never the error the invocation is rejected with, and the
\* invocation goes on to the credential check.
C4_NetworkFailureAbsorbed ==
    proxyFailure.kind = "network"
       => /\ result.via # "proxy_error"
          /\ InTrace("cred_check")

\* C5: in the direct-call step the provider call is issued only with a
\* credential that is present and starts with "sk-"; an absent or empty
\* credential rejects with "API key required", a credential without the
\* prefix rejects with "Invalid API key", and neither issues a provider call.
C5_DirectCallNeedsKey ==
    /\ InTrace("provider_call") => HasSkPrefix(key) /\ InTrace("cred_check")
    /\ InTrace("cred_check") => proxyFailure.kind # "none"
    /\ (InTrace("cred_check") /\ (key.isNull \/ key.v = ""))
          => /\ result.state = "rejected"
             /\ Includes(result.value, "API key required")
             /\ ~InTrace("provider_call")
    /\ (InTrace("cred_check") /\ ~key.isNull /\ key.v # "" /\ ~HasSkPrefix(key))
          => /\ result.state = "rejected"
             /\ Includes(result.value, "Invalid API key")
             /\ ~InTrace("provider_call")

\* a key that contains "sk-" but does not start with it
C5_Witness ==
    /\ key = Str("xsk-1")
    /\ InTrace("cred_check")
    /\ result = Rejected("cred_invalid", CredentialInvalidMsg)

C7_NotConfiguredFallsBack ==
    /\ (serverKey.isNull \/ serverKey.v = "")
          => /\ hpc = "idle"
             /\ (net.stage = "response" /\ ~net.res.error.isNull)
                   => net.res = NotConfiguredReply
    /\ proxyReply = NotConfiguredReply
          => /\ InTrace("cred_check")
             /\ result.via # "proxy_error"
             /\ result.value # NotConfiguredMsg
             /\ (HasSkPrefix(key) => InTrace("provider_call"))

C7_Witness ==
    /\ serverKey = Null
    /\ proxyReply = NotConfiguredReply
    /\ key = Str("sk-test")
    /\ pc = "direct_wait"
    /\ trace = <<"proxy_post", "cred_check", "provider_call">>

\* C8: the classification of a provider failure is total and the first match
\* wins in the order "rate limit", then "context length" or "maximum", then
\* "API key", then unknown; on the direct path the thrown message and on the
\* proxy path the status of the reply are those of the first matching
\* category.
C8_FirstMatchWins ==
    /\ result.via = "direct_error" =>
          LET m == directRaw.v
              rate == Includes(m, "rate limit")
              long == Includes(m, "context length") \/ Includes(m, "maximum")
              cred == Includes(m, "API key")
          IN  /\ rate => result.value = RateLimitedMsg
              /\ (~rate /\ long) => result.value = ContextTooLargeMsg
              /\ (~rate /\ ~long /\ cred) => result.value = CredentialRejectedMsg
              /\ (~rate /\ ~long /\ ~cred) => result.value = m
    /\ (net.stage = "response" /\ ~net.res.raw.isNull) =>
          LET m == net.res.raw.v
              rate == Includes(m, "rate limit")
              long == Includes(m, "context length") \/ Includes(m, "maximum")
              cred == Includes(m, "API key")
          IN  /\ rate => net.res.status = 429
              /\ (~rate /\ long) => net.res.status = 400
              /\ (~rate /\ ~long /\ cred) => net.res.status = 401
              /\ (~rate /\ ~long /\ ~cred) => net.res.status = 500

\* a failure text that matches all three categories
C8_Witness ==
    /\ directRaw = Str("rate limit: maximum requests per API key")
    /\ result = Rejected("direct_error", RateLimitedMsg)

\* String.prototype.toLowerCase, for the letters A-Z
UpperLetters == "ABCDEFGHIJKLMNOPQRSTUVWXYZ"
LowerLetters == "abcdefghijklmnopqrstuvwxyz"
LowerChar(c) ==
    IF \E i \in 1..26 : SubSeq(UpperLetters, i, i) = c
    THEN LET i == CHOOSE i \in 1..26 : SubSeq(UpperLetters, i, i) = c
         IN  SubSeq(LowerLetters, i, i)
    ELSE c
RECURSIVE ToLowerCase(_)
ToLowerCase(s) ==
    IF Len(s) = 0 THEN ""
    ELSE LowerChar(SubSeq(s, 1, 1)) \o ToLowerCase(SubSeq(s, 2, Len(s)))

\* s contains sub, letter case ignored
IncludesNoCase(s, sub) == Includes(ToLowerCase(s), ToLowerCase(sub))

\* C9 as stated: the classification ignores letter case: a provider failure
\* whose text contains "rate limit", "context length", "maximum" or "API key"
\* in any letter case is mapped to that category (first match wins), on the
\* direct path and in the handler.
C9_CaseInsensitive ==
    /\ result.via = "direct_error" =>
          LET m == directRaw.v
              rate == IncludesNoCase(m, "rate limit")
              long == IncludesNoCase(m, "context length") \/ IncludesNoCase(m, "maximum")
              cred == IncludesNoCase(m, "API key")
          IN  /\ rate => result.value = RateLimitedMsg
              /\ (~rate /\ long) => result.value = ContextTooLargeMsg
              /\ (~rate /\ ~long /\ cred) => result.value = CredentialRejectedMsg
    /\ (net.stage = "response" /\ ~net.res.raw.isNull) =>
          LET m == net.res.raw.v
              rate == IncludesNoCase(m, "rate limit")
              long == IncludesNoCase(m, "context length") \/ IncludesNoCase(m, "maximum")
              cred == IncludesNoCase(m, "API key")
          IN  /\ rate => net.res.status = 429
              /\ (~rate /\ long) => net.res.status = 400
              /\ (~rate /\ ~long /\ cred) => net.res.status = 401

\* the fixed messages of the categories, client and handler wording
CategoryMessages ==
    {RateLimitedMsg, ContextTooLargeMsg, CredentialRejectedMsg,
     ServerRateLimitedMsg, ServerTooLongMsg, ServerKeyRejectedMsg}

\* no category matches the failure text
IsUnknown(m) ==
    /\ ~Includes(m, "rate limit")
    /\ ~Includes(m, "context length")
    /\ ~Includes(m, "maximum")
    /\ ~Includes(m, "API key")

MaxTextLen == 7
MaxBudget == 6

Alphabet == {"a", "\n"}

RECURSIVE TextsOfLen(_)
TextsOfLen(n) ==
    IF n = 0 THEN {""}
    ELSE {t \o c : t \in TextsOfLen(n - 1), c \in Alphabet}

TextsUpTo(n) == UNION {TextsOfLen(k) : k \in 0..n}

\* the store as created and no sendMessage under way
DispatchIdle ==
    /\ apiKey = Null
    /\ openFiles = <<>>
    /\ language = "javascript"
    /\ activeFileId = Null
    /\ nextFileId = 0
    /\ serverKey = Null
    /\ pc = "idle"
    /\ key = Null
    /\ body = NoBody
    /\ net = NoRequest
    /\ hpc = "idle"
    /\ proxyReply = NoReply
    /\ proxyFailure = NoFailure
    /\ directRaw = Null
    /\ result = Pending
    /\ trace = <<>>
    /\ sends = 0

InitTruncate ==
    /\ \E t \in TextsUpTo(MaxTextLen), m \in 0..MaxBudget :
          trunc = [text |-> t, maxLength |-> m, done |-> FALSE,
                   out |-> [text |-> "", truncated |-> FALSE]]
    /\ AsmIdle
    /\ HistIdle
    /\ PromptIdle
    /\ ThreadsIdle
    /\ PanelIdle
    /\ RequestIdle
    /\ DispatchIdle

applyTruncate ==
    /\ ~trunc.done
    /\ trunc' = [trunc EXCEPT !.done = TRUE,
                              !.out = truncateText(trunc.text, trunc.maxLength)]
    /\ UNCHANGED <<dispatchVars, asm, hist, prompt, threadVars, panel, req>>

NextTruncate == applyTruncate

SpecTruncate == InitTruncate /\ [][NextTruncate]_vars

\* C11: truncateText returns its input unchanged with truncated = FALSE when
\* the text is no longer than maxLength, and otherwise truncated = TRUE with
\* an output no longer than maxLength plus the marker, the empty text
\* included.
C11_TruncateBounds ==
    trunc.done =>
       /\ Len(trunc.text) <= trunc.maxLength
             => trunc.out = [text |-> trunc.text, truncated |-> FALSE]
       /\ Len(trunc.text) > trunc.maxLength
             => /\ trunc.out.truncated = TRUE
                /\ Len(trunc.out.text) <= trunc.maxLength + Len(TruncationMarker)

\* a text of exactly the budget comes back unchanged
C11_Witness ==
    /\ trunc.done
    /\ Len(trunc.text) = trunc.maxLength
    /\ trunc.maxLength = MaxBudget
    /\ trunc.out = [text |-> trunc.text, truncated |-> FALSE]

\* 0-based position of the last line-break among the first m characters of
\* t, -1 if there is none
LastBreak(t, m) ==
    LET ps == {p \in 0..(m - 1) : p < Len(t) /\ SubSeq(t, p + 1, p + 1) = "\n"}
    IN  IF ps = {} THEN -1 ELSE CHOOSE p \in ps : \A q \in ps : q <= p

\* C12 as stated: an oversized text is cut at the last line-break within the
\* first maxLength characters if its position is >= 0.8 * maxLength (equality
\* included), otherwise at maxLength; the output is that prefix followed by
\* the marker.
C12_CutAtBreakInclusive ==
    (trunc.done /\ Len(trunc.text) > trunc.maxLength) =>
       LET nl == LastBreak(trunc.text, trunc.maxLength)
           cut == IF nl >= 0 /\ nl * 10 >= trunc.maxLength * 8
                  THEN nl ELSE trunc.maxLength
       IN  trunc.out.text = SubSeq(trunc.text, 1, cut) \o TruncationMarker

\* C12 amended: the cut is at the last line-break only if its position is
\* strictly greater than 0.8 * maxLength; a line-break exactly at
\* 0.8 * maxLength is not used and the cut is at maxLength.
C12_CutAtBreakStrict ==
    (trunc.done /\ Len(trunc.text) > trunc.maxLength) =>
       LET nl == LastBreak(trunc.text, trunc.maxLength)
           cut == IF nl * 10 > trunc.maxLength * 8
                  THEN nl ELSE trunc.maxLength
       IN  trunc.out.text = SubSeq(trunc.text, 1, cut) \o TruncationMarker

\* budget 6, last line-break at position 5: the cut is at the line-break
C12_Witness ==
    /\ trunc.done
    /\ trunc.maxLength = 6
    /\ trunc.text = "aaaaa\na"
    /\ trunc.out.text = "aaaaa" \o TruncationMarker

(***************************************************************************)
(* The context assembly on its own: the enhancedContext of sendMessage for *)
(* primary contexts and open files below, at and above their budgets, and  *)
(* for up to MaxAsmFiles open files.                                       *)
(***************************************************************************)
MaxAsmFiles == 6
MaxLongFiles == 1

\* n copies of the string c
RECURSIVE Rep(_, _)
Rep(c, n) ==
    IF n = 0 THEN ""
    ELSE IF n % 2 = 1 THEN c \o Rep(c, n - 1)
    ELSE LET h == Rep(c, n \div 2) IN h \o h

\* primary contexts: empty, short, exactly the budget, and one character
\* over it with its last line-break in the last fifth
AtCodeBudget == Rep("p", MAX_CODE_CONTEXT_LENGTH)
OverCodeBudget == Rep("p", MAX_CODE_CONTEXT_LENGTH - 1000) \o "\n" \o Rep("p", 1000)
AsmCodeContexts == {"", "const x = 1;", AtCodeBudget, OverCodeBudget}

\* file contents: short, exactly the budget, and one character over it
ShortFile == "let a;\nlet b;"
AtFileBudget == Rep("f", MAX_FILE_CONTEXT_LENGTH)
OverFileBudget == Rep("f", MAX_FILE_CONTEXT_LENGTH - 500) \o "\n" \o Rep("f", 500)
AsmFileContents == {ShortFile, AtFileBudget, OverFileBudget}

\* the i-th open file: the store gives every file a name, a content and a language
AsmFile(i, content) ==
    [name |-> "f" \o ToString(i) \o ".ts", content |-> content, language |-> "typescript"]

\* the lists of open files, at most MaxLongFiles of them not short
AsmFileLists ==
    LET cs == UNION {[1..n -> AsmFileContents] : n \in 0..MaxAsmFiles}
        ok == {c \in cs : Cardinality({i \in DOMAIN c : c[i] # ShortFile}) <= MaxLongFiles}
    IN  {[i \in DOMAIN c |-> AsmFile(i, c[i])] : c \in ok}

InitAssemble ==
    /\ \E c \in AsmCodeContexts, fs \in AsmFileLists :
          asm = [codeContext |-> c, files |-> fs, done |-> FALSE, out |-> ""]
    /\ TruncIdle
    /\ HistIdle
    /\ PromptIdle
    /\ ThreadsIdle
    /\ PanelIdle
    /\ RequestIdle
    /\ DispatchIdle

assemble ==
    /\ ~asm.done
    /\ asm' = [asm EXCEPT !.done = TRUE,
                          !.out = EnhancedContext(asm.codeContext, asm.files)]
    /\ UNCHANGED <<dispatchVars, trunc, hist, prompt, threadVars, panel, req>>

NextAssemble == assemble

SpecAssemble == InitAssemble /\ [][NextAssemble]_vars

\* 1-based position of the first occurrence of sub in s, 0 if there is none
IndexOf(s, sub) ==
    LET hits == {i \in 1..(Len(s) - Len(sub) + 1) : SubSeq(s, i, i + Len(sub) - 1) = sub}
    IN  IF hits = {} THEN 0 ELSE CHOOSE i \in hits : \A j \in hits : i <= j

EndsWith(s, suffix) ==
    Len(s) >= Len(suffix) /\ SubSeq(s, Len(s) - Len(suffix) + 1, Len(s)) = suffix

\* the label that opens the section of the file f
SectionLabel(f) == "\n### File: " \o f.name \o " (" \o f.language \o ")"

ExpectedSection(f) ==
    SectionLabel(f) \o (IF Len(f.content) > 5000 THEN " [truncated]" ELSE "")
    \o "\n" \o Fence \o f.language \o "\n"
    \o truncateText(f.content, 5000).text \o "\n" \o Fence

\* C14: each retained open file has its own section whose content is the
\* file's content truncated with the budget of 5000 on its own, marked
\* '[truncated]' next to its label exactly when the file was truncated; and
\* when nothing but files was truncated the context has no note.
C14_FilesTruncatedInline ==
    asm.done =>
       LET n == Len(asm.files)
       IN  /\ \A i \in 1..n : i <= 5 =>
                 LET f == asm.files[i]
                     at == IndexOf(asm.out, SectionLabel(f))
                 IN  /\ at > 0
                     /\ SubSeq(asm.out, at, at + Len(ExpectedSection(f)) - 1)
                           = ExpectedSection(f)
           /\ (Len(asm.codeContext) <= 15000 /\ n <= 5)
                 => ~Includes(asm.out, "> Note:")

\* a file over the budget and a file within it side by side: the first is
\* marked, the second is not, and no note is queued
C14_Witness ==
    /\ asm.done
    /\ ~Includes(asm.out, "> Note:")
    /\ \E i, j \in 1..Len(asm.files) :
          /\ i <= 5 /\ j <= 5
          /\ Len(asm.files[i].content) = 5001
          /\ Len(asm.files[j].content) <= 5000
          /\ Includes(asm.out, SectionLabel(asm.files[i]) \o " [truncated]\n")
          /\ Includes(asm.out, SectionLabel(asm.files[j]) \o "\n")

\* the notes the assembly is to end with for a primary context c and n open files
ExpectedNotes(c, n) ==
    (IF Len(c) > 15000
     THEN "\n\n> Note: The selected code was truncated due to length. Focus on the visible portion."
     ELSE "")
    \o (IF n > 5
        THEN "\n> Note: Only showing 5 of " \o ToString(n) \o " open files for context."
        ELSE "")

\* C15: the assembled context starts with the primary context truncated with
\* the budget of 15000, the sections of the retained files follow it in
\* order, and the notes are the very end, right after the last section (or
\* after the primary context if no file is open); the note about the primary
\* context is there exactly when the primary context was truncated.
C15_AssemblyOrder ==
    asm.done =>
       LET n == Len(asm.files)
           k == IF n > 5 THEN 5 ELSE n
           p == truncateText(asm.codeContext, 15000)
           notes == ExpectedNotes(asm.codeContext, n)
           at(i) == IndexOf(asm.out, SectionLabel(asm.files[i]))
           bodyEnd == Len(asm.out) - Len(notes)
       IN  /\ StartsWith(asm.out, p.text)
           /\ \A i \in 1..k : at(i) > Len(p.text)
           /\ \A i \in 1..k : i < k => at(i) + Len(ExpectedSection(asm.files[i])) <= at(i + 1)
           /\ EndsWith(asm.out, notes)
           /\ IF k = 0 THEN bodyEnd = Len(p.text)
              ELSE bodyEnd = at(k) + Len(ExpectedSection(asm.files[k])) - 1
           /\ p.truncated <=> Len(asm.codeContext) > 15000
           /\ p.truncated <=> Includes(asm.out, "> Note: The selected code was truncated")

\* a primary context over its budget and six open files: both notes, in the
\* order they were queued, end the context
C15_Witness ==
    /\ asm.done
    /\ Len(asm.codeContext) = 15001
    /\ Len(asm.files) = 6
    /\ EndsWith(asm.out, CodeTruncatedNote
                         \o "\n> Note: Only showing 5 of 6 open files for context.")
    /\ IndexOf(asm.out, SectionLabel(asm.files[1])) > 14000

(***************************************************************************)
(* The history on its own: the messages of a thread as handleSend hands    *)
(* them to sendMessage, and what sendMessage sends on.                     *)
(***************************************************************************)
MaxHistLen == 12

Roles == {"user", "assistant"}

\* the i-th message of a thread
ThreadMessage(i, role) ==
    [id |-> "id" \o ToString(i), role |-> role,
     content |-> "m" \o ToString(i), timestamp |-> i]

\* the message lists of a thread, up to MaxHistLen messages of either role
ThreadMessageLists ==
    {[i \in DOMAIN rs |-> ThreadMessage(i, rs[i])] :
        rs \in UNION {[1..n -> Roles] : n \in 0..MaxHistLen}}

\* thread.messages.map(m => ({ role: m.role, content: m.content }))
HistoryOf(messages) ==
    [i \in 1..Len(messages) |-> [role |-> messages[i].role, content |-> messages[i].content]]

InitHistory ==
    /\ \E ms \in ThreadMessageLists :
          hist = [messages |-> ms, done |-> FALSE, sent |-> <<>>]
    /\ TruncIdle
    /\ AsmIdle
    /\ PromptIdle
    /\ ThreadsIdle
    /\ PanelIdle
    /\ RequestIdle
    /\ DispatchIdle

sendHistory ==
    /\ ~hist.done
    /\ hist' = [hist EXCEPT !.done = TRUE,
                            !.sent = limitedHistory(HistoryOf(hist.messages))]
    /\ UNCHANGED <<dispatchVars, trunc, asm, prompt, threadVars, panel, req>>

NextHistory == sendHistory

SpecHistory == InitHistory /\ [][NextHistory]_vars

\* C16: the history sent is the last 10 of the given messages, all of them
\* when there are 10 or fewer, in their order, each a record of exactly role
\* and content.
C16_RecentHistory ==
    hist.done =>
       LET n == Len(hist.messages)
           k == IF n > 10 THEN 10 ELSE n
       IN  /\ Len(hist.sent) = k
           /\ \A i \in 1..k :
                 hist.sent[i] = [role |-> hist.messages[n - k + i].role,
                                 content |-> hist.messages[n - k + i].content]

\* twelve messages: ten are sent, the third being the first of them
C16_Witness ==
    /\ hist.done
    /\ Len(hist.messages) = 12
    /\ Len(hist.sent) = 10
    /\ hist.sent[1].content = hist.messages[3].content
    /\ hist.sent[10].content = hist.messages[12].content

(***************************************************************************)
(* services/ai.ts : the system prompt.  The backquotes of the source are   *)
(* spelled as apostrophes, as in Fence.                                    *)
(***************************************************************************)
\* hint && hint !== 'plaintext' ? hint : the first pattern that matches
detectLanguage(code, hint) ==
    IF hint # "" /\ hint # "plaintext" THEN hint
    ELSE IF Includes(code, "import React") \/ Includes(code, "useState") \/ Includes(code, "jsx")
         THEN "typescript/react"
    ELSE IF Includes(code, "def ") /\ Includes(code, ":") THEN "python"
    ELSE IF Includes(code, "func ") /\ Includes(code, "package ") THEN "go"
    ELSE IF Includes(code, "fn ") /\ Includes(code, "let mut") THEN "rust"
    ELSE IF Includes(code, "public class") \/ Includes(code, "private void") THEN "java"
    ELSE IF Includes(code, "#include") \/ Includes(code, "std::") THEN "cpp"
    ELSE IF Includes(code, "const ") \/ Includes(code, "let ") \/ Includes(code, "function ")
         THEN "javascript"
    ELSE IF Includes(code, "interface ") \/ Includes(code, ": string") \/ Includes(code, ": number")
         THEN "typescript"
    ELSE IF Includes(code, "<html") \/ Includes(code, "<!DOCTYPE") THEN "html"
    ELSE IF Includes(code, "{") /\ Includes(code, ":") /\ Includes(code, ";") THEN "css"
    ELSE IF hint # "" THEN hint ELSE "unknown"

\* codeContext.split('\n').length
SplitLength(codeContext) ==
    Cardinality({i \in 1..Len(codeContext) : SubSeq(codeContext, i, i) = "\n"}) + 1

\* the opening of the prompt: the reviewer's role and the code under review
PromptHead(detectedLang, lineCount, codeContext) ==
    "You are an expert senior software engineer providing a focused, specific code review. You have deep expertise in " \o detectedLang \o ".\n"
    \o "\n"
    \o "## Code Under Review (" \o ToString(lineCount) \o " lines)\n"
    \o Fence \o detectedLang \o "\n"
    \o codeContext \o "\n"
    \o Fence \o "\n"

\* the block added for a large selection
LargeFileWarning(lineCount) ==
    "\n"
    \o "## LARGE FILE WARNING (" \o ToString(lineCount) \o " lines)\n"
    \o "This is a large code selection. When providing improved code:\n"
    \o "- You MUST still return the complete code block, but prioritize the most important changes\n"
    \o "- Make sure your response completes - don't let it get cut off\n"
    \o "- If the code is too large to return completely, clearly state this and provide the most critical sections\n"

\* the instructions every prompt ends with
PromptInstructions(detectedLang) ==
    "\n"
    \o "## CRITICAL INSTRUCTIONS - READ CAREFULLY\n"
    \o "\n"
    \o "### Be Specific, Not Generic\n"
    \o "- **NEVER** give generic advice like \"consider adding error handling\" without pointing to the exact location\n"
    \o "- **ALWAYS** reference specific function names, variable names, or line numbers from the code above\n"
    \o "- **ALWAYS** explain issues in terms of THIS code, not hypothetical scenarios\n"
    \o "- If the code has no issues, say \"This code looks good\" and explain why briefly\n"
    \o "\n"
    \o "### What Makes a Good vs Bad Response\n"
    \o "\n"
    \o "**BAD (generic, unhelpful):**\n"
    \o "- \"Consider adding input validation\"\n"
    \o "- \"You might want to add error handling\"\n"
    \o "- \"Consider using TypeScript types\"\n"
    \o "\n"
    \o "**GOOD (specific, actionable):**\n"
    \o "- \"The 'calculateTotal' function on line 5 doesn't handle the case where 'items' is null\"\n"
    \o "- \"The 'userId' parameter in 'fetchUser(userId)' should be validated before the API call\"\n"
    \o "- \"The 'data' variable is typed as 'any' - specify the expected shape: '{ name: string; age: number }'\"\n"
    \o "\n"
    \o "### Review Focus Areas for " \o detectedLang \o "\n"
    \o "1. **Bugs**: Logic errors, null handling, async issues, edge cases\n"
    \o "2. **Security**: Injection vulnerabilities, data exposure, auth flaws\n"
    \o "3. **Performance**: Unnecessary operations, memory issues, N+1 queries\n"
    \o "4. **Quality**: Naming, complexity, duplication, error handling\n"
    \o "\n"
    \o "### Response Format\n"
    \o "1. **Quick Summary**: One sentence describing what this code does and your main finding\n"
    \o "2. **Specific Findings**: List concrete issues with exact references to the code\n"
    \o "3. **Improved Code**: If suggesting changes, provide the COMPLETE improved code\n"
    \o "\n"
    \o "### Code Suggestions - CRITICAL\n"
    \o "- **ALWAYS return the ENTIRE code block** with your changes applied, not just the modified portion\n"
    \o "- The user will use \"Apply Changes\" to replace their selection with your code block\n"
    \o "- If you only return a snippet, the rest of their code will be deleted\n"
    \o "- Use '''" \o detectedLang \o " code blocks\n"
    \o "- Make minimal changes to the code itself, but ALWAYS include the full context\n"
    \o "- Include brief inline comments explaining significant changes\n"
    \o "\n"
    \o "**Example - WRONG (partial code):**\n"
    \o Fence \o detectedLang \o "\n"
    \o "// Just showing the fix:\n"
    \o "if (items != null) {\n"
    \o "    return items.reduce((a, b) => a + b, 0);\n"
    \o "}\n"
    \o Fence \o "\n"
    \o "\n"
    \o "**Example - CORRECT (complete code):**\n"
    \o Fence \o detectedLang \o "\n"
    \o "function calculateTotal(items) {\n"
    \o "    // Added null check\n"
    \o "    if (items == null) {\n"
    \o "        return 0;\n"
    \o "    }\n"
    \o "    return items.reduce((a, b) => a + b, 0);\n"
    \o "}\n"
    \o Fence

\* the warning comes with 100 lines already
buildSystemPrompt_From100(codeContext, lang) ==
    LET detectedLang == detectLanguage(codeContext, lang)
        lineCount == SplitLength(codeContext)
        isLargeFile == lineCount >= 100
    IN  PromptHead(detectedLang, lineCount, codeContext)
        \o (IF isLargeFile THEN LargeFileWarning(lineCount) ELSE "")
        \o PromptInstructions(detectedLang)

buildSystemPrompt(codeContext, lang) ==
    LET detectedLang == detectLanguage(codeContext, lang)
        lineCount == SplitLength(codeContext)
        isLargeFile == lineCount > 100
    IN  PromptHead(detectedLang, lineCount, codeContext)
        \o (IF isLargeFile THEN LargeFileWarning(lineCount) ELSE "")
        \o PromptInstructions(detectedLang)

(***************************************************************************)
(* The system prompt on its own: buildSystemPrompt for selections of up to *)
(* MaxLines lines.                                                         *)
(***************************************************************************)
MaxLines == 150

\* n lines, each the text t
Lines(t, n) == t \o Rep("\n" \o t, n - 1)

PromptLineTexts == {"const x = 1;", "x"}
PromptCodeContexts == {""} \cup {Lines(t, n) : t \in PromptLineTexts, n \in 1..MaxLines}
PromptLanguages == {"typescript", "plaintext", ""}

InitPrompt ==
    /\ \E c \in PromptCodeContexts, l \in PromptLanguages :
          prompt = [codeContext |-> c, language |-> l, done |-> FALSE, out |-> ""]
    /\ TruncIdle
    /\ AsmIdle
    /\ HistIdle
    /\ ThreadsIdle
    /\ PanelIdle
    /\ RequestIdle
    /\ DispatchIdle

applyBuildSystemPrompt ==
    /\ ~prompt.done
    /\ prompt' = [prompt EXCEPT !.done = TRUE,
                                !.out = buildSystemPrompt(prompt.codeContext, prompt.language)]
    /\ UNCHANGED <<dispatchVars, trunc, asm, hist, threadVars, panel, req>>

NextPrompt == applyBuildSystemPrompt

SpecPrompt == InitPrompt /\ [][NextPrompt]_vars

\* the number of line-breaks of s
LineBreaks(s) == Cardinality({i \in 1..Len(s) : SubSeq(s, i, i) = "\n"})

\* C17: the prompt holds the LARGE FILE WARNING block, headed with the line
\* count, exactly when its codeContext has more than 100 lines: with 101
\* lines or more it does, with 100 or fewer it does not.
C17_LargeFileWarning ==
    prompt.done =>
       LET n == LineBreaks(prompt.codeContext) + 1
       IN  /\ n > 100 => Includes(prompt.out, "\n## LARGE FILE WARNING ("
                                               \o ToString(n) \o " lines)\n")
           /\ n <= 100 => ~Includes(prompt.out, "LARGE FILE WARNING")

\* 101 lines: the warning is there, between the code and the instructions
C17_Witness ==
    /\ prompt.done
    /\ LineBreaks(prompt.codeContext) = 100
    /\ LET w == IndexOf(prompt.out, "## LARGE FILE WARNING (101 lines)")
       IN  /\ w > Len(prompt.codeContext)
           /\ w < IndexOf(prompt.out, "## CRITICAL INSTRUCTIONS")

(***************************************************************************)
(* The chat panel: the threads of the store, the tabs of ChatPanel, the    *)
(* one ThreadView it renders, the editor's mouse handler, and the          *)
(* handleSend calls under way.                                             *)
(***************************************************************************)
MaxThreads == 2
MaxRequests == 2

\* Thread['range'] : null is a record of its own
NoRange == [isNull |-> TRUE, startLineNumber |-> 0, endLineNumber |-> 0,
            startColumn |-> 0, endColumn |-> 0]

\* the text in the editor and the selection the user makes in it: the first
\* two lines
EditorLines == <<"let a = 1;", "let b = 2;", "let c = 3;">>
Selections ==
    {[isNull |-> FALSE, startLineNumber |-> 1, endLineNumber |-> 2,
      startColumn |-> 1, endColumn |-> 11]}

\* model.getValueInRange(selection)
getValueInRange(sel) ==
    Join(SubSeq(EditorLines, sel.startLineNumber, sel.endLineNumber), "\n")

Languages == {"javascript", "typescript"}

\* threads.find(t => t.id === id) !== undefined
HasThread(ts, id) == \E i \in DOMAIN ts : ts[i].id = id

\* addThread: the thread is put last
addThread(ts, thread) == Append(ts, thread)

\* the message replaces the messages of the thread
addMessageToThread_Replace(ts, threadId, message) ==
    [i \in DOMAIN ts |->
        IF ts[i].id = threadId
        THEN [ts[i] EXCEPT !.messages = <<message>>]
        ELSE ts[i]]

\* addMessageToThread: the message is put last in the thread of that id
addMessageToThread(ts, threadId, message) ==
    [i \in DOMAIN ts |->
        IF ts[i].id = threadId
        THEN [ts[i] EXCEPT !.messages = Append(@, message)]
        ELSE ts[i]]

\* removeThread: threads.filter(t => t.id !== threadId)
removeThread(ts, threadId) == SelectSeq(ts, LAMBDA t : t.id # threadId)

\* Date.now() as a logical clock: the sends and answers so far
Now == nextRequest + Len(resolved)

\* ChatPanel renders ThreadView, without a key, while threads.find finds the
\* active thread: the one instance keeps its isTyping across a change of the
\* thread it shows, and is unmounted when there is no active thread.  A new
\* instance starts with isTyping = FALSE, and the setIsTyping(false) of a
\* call made by an unmounted instance changes nothing.
Render(typing, calls) ==
    IF HasThread(threads', activeThreadId')
    THEN /\ isTyping' = typing
         /\ inflight' = calls
    ELSE /\ isTyping' = FALSE
         /\ inflight' = {[c EXCEPT !.live = FALSE] : c \in calls}

\* what the editor's mouse handler reads of the threads it closed over
EditorSnapshot(ts) == [i \in DOMAIN ts |-> [id |-> ts[i].id, range |-> ts[i].range]]

handleNewChat ==
    /\ nextThreadId <= MaxThreads
    /\ threads' = addThread(threads, [id |-> nextThreadId, range |-> NoRange,
                                      messages |-> <<>>, codeContext |-> ""])
    /\ activeThreadId' = nextThreadId
    /\ nextThreadId' = nextThreadId + 1
    /\ UNCHANGED <<editorThreads, nextRequest, resolved>>
    /\ UNCHANGED <<dispatchVars, trunc, asm, hist, prompt, panel, req>>
    /\ Render(isTyping, inflight)

handleAskAI(selection) ==
    /\ nextThreadId <= MaxThreads
    /\ threads' = addThread(threads, [id |-> nextThreadId, range |-> selection,
                                      messages |-> <<>>,
                                      codeContext |-> getValueInRange(selection)])
    /\ activeThreadId' = nextThreadId
    /\ nextThreadId' = nextThreadId + 1
    /\ UNCHANGED <<editorThreads, nextRequest, resolved>>
    /\ UNCHANGED <<dispatchVars, trunc, asm, hist, prompt, panel, req>>
    /\ Render(isTyping, inflight)

\* a click on the tab of a thread
tabClick(id) ==
    /\ HasThread(threads, id)
    /\ activeThreadId' = id
    /\ UNCHANGED <<threads, editorThreads, nextThreadId, nextRequest, resolved>>
    /\ UNCHANGED <<dispatchVars, trunc, asm, hist, prompt, panel, req>>
    /\ Render(isTyping, inflight)

\* a click on the cross of the tab of a thread
tabClose(id) ==
    /\ HasThread(threads, id)
    /\ threads' = removeThread(threads, id)
    /\ activeThreadId' =
          IF activeThreadId = id
          THEN LET others == SelectSeq(threads, LAMBDA t : t.id # id)
               IN  IF others = <<>> THEN 0 ELSE others[1].id
          ELSE activeThreadId
    /\ UNCHANGED <<editorThreads, nextThreadId, nextRequest, resolved>>
    /\ UNCHANGED <<dispatchVars, trunc, asm, hist, prompt, panel, req>>
    /\ Render(isTyping, inflight)

\* the language is changed in the header: the Editor, keyed by the language,
\* is mounted anew and its mouse handler closes over the threads of now
setLanguage(l) ==
    /\ l # language
    /\ language' = l
    /\ editorThreads' = EditorSnapshot(threads)
    /\ UNCHANGED <<threads, activeThreadId, isTyping, inflight, nextThreadId,
                   nextRequest, resolved>>
    /\ UNCHANGED <<apiKey, openFiles, serverKey, pc, key, body, net, hpc,
                   proxyReply, proxyFailure, directRaw, result, trace, sends,
                   activeFileId, nextFileId>>
    /\ UNCHANGED <<trunc, asm, hist, prompt, panel, req>>

\* editor.onMouseDown on a line: the first thread, of those the handler
\* closed over, whose range holds the line becomes the active thread
onMouseDown(lineNumber) ==
    /\ LET hits == SelectSeq(editorThreads,
                             LAMBDA t : /\ ~t.range.isNull
                                        /\ lineNumber >= t.range.startLineNumber
                                        /\ lineNumber <= t.range.endLineNumber)
       IN  /\ hits # <<>>
           /\ activeThreadId' = hits[1].id
    /\ UNCHANGED <<threads, editorThreads, nextThreadId, nextRequest, resolved>>
    /\ UNCHANGED <<dispatchVars, trunc, asm, hist, prompt, panel, req>>
    /\ Render(isTyping, inflight)

\* handleSend up to its await: the input and the button are disabled while
\* isTyping
handleSend ==
    /\ HasThread(threads, activeThreadId)
    /\ ~isTyping
    /\ nextRequest <= MaxRequests
    /\ LET userMsg == [id |-> 2 * nextRequest - 1, role |-> "user",
                       content |-> "q" \o ToString(nextRequest), timestamp |-> Now]
       IN  threads' = addMessageToThread(threads, activeThreadId, userMsg)
    /\ nextRequest' = nextRequest + 1
    /\ UNCHANGED <<activeThreadId, editorThreads, nextThreadId, resolved>>
    /\ UNCHANGED <<dispatchVars, trunc, asm, hist, prompt, panel, req>>
    /\ Render(TRUE, inflight \cup {[rid |-> nextRequest, threadId |-> activeThreadId,
                                    live |-> TRUE]})

\* the answer is put right after the question it answers
handleSendResolves_AfterQuestion(call) ==
    /\ call \in inflight
    /\ LET aiMsg == [id |-> 2 * call.rid, role |-> "assistant",
                     content |-> "a" \o ToString(call.rid), timestamp |-> Now]
           place(ms) == IF \E k \in DOMAIN ms : ms[k].id = 2 * call.rid - 1
                        THEN LET k == CHOOSE k \in DOMAIN ms : ms[k].id = 2 * call.rid - 1
                             IN  SubSeq(ms, 1, k) \o <<aiMsg>> \o SubSeq(ms, k + 1, Len(ms))
                        ELSE ms
       IN  threads' = [i \in DOMAIN threads |->
                          IF threads[i].id = call.threadId
                          THEN [threads[i] EXCEPT !.messages = place(@)]
                          ELSE threads[i]]
    /\ resolved' = Append(resolved, [rid |-> call.rid, threadId |-> call.threadId])
    /\ UNCHANGED activeThreadId
    /\ UNCHANGED <<editorThreads, nextThreadId, nextRequest>>
    /\ UNCHANGED <<dispatchVars, trunc, asm, hist, prompt, panel, req>>
    /\ Render(IF call.live THEN FALSE ELSE isTyping, inflight \ {call})

\* the answer is given to the thread that is active when it arrives
handleSendResolves_ToActive(call) ==
    /\ call \in inflight
    /\ LET aiMsg == [id |-> 2 * call.rid, role |-> "assistant",
                     content |-> "a" \o ToString(call.rid), timestamp |-> Now]
       IN  threads' = addMessageToThread(threads, activeThreadId, aiMsg)
    /\ resolved' = Append(resolved, [rid |-> call.rid, threadId |-> call.threadId])
    /\ UNCHANGED activeThreadId
    /\ UNCHANGED <<editorThreads, nextThreadId, nextRequest>>
    /\ UNCHANGED <<dispatchVars, trunc, asm, hist, prompt, panel, req>>
    /\ Render(IF call.live THEN FALSE ELSE isTyping, inflight \ {call})

\* handleSend after its await, aiService.sendMessage having resolved
handleSendResolves(call) ==
    /\ call \in inflight
    /\ LET aiMsg == [id |-> 2 * call.rid, role |-> "assistant",
                     content |-> "a" \o ToString(call.rid), timestamp |-> Now]
       IN  threads' = addMessageToThread(threads, call.threadId, aiMsg)
    /\ resolved' = Append(resolved, [rid |-> call.rid, threadId |-> call.threadId])
    /\ UNCHANGED activeThreadId
    /\ UNCHANGED <<editorThreads, nextThreadId, nextRequest>>
    /\ UNCHANGED <<dispatchVars, trunc, asm, hist, prompt, panel, req>>
    /\ Render(IF call.live THEN FALSE ELSE isTyping, inflight \ {call})

\* handleSend without its finally block
handleSendRejects_KeepsTyping(call) ==
    /\ call \in inflight
    /\ UNCHANGED <<threads, activeThreadId, resolved>>
    /\ UNCHANGED <<editorThreads, nextThreadId, nextRequest>>
    /\ UNCHANGED <<dispatchVars, trunc, asm, hist, prompt, panel, req>>
    /\ Render(isTyping, inflight \ {call})

\* handleSend after its await, aiService.sendMessage having thrown
handleSendRejects(call) ==
    /\ call \in inflight
    /\ UNCHANGED <<threads, activeThreadId, resolved>>
    /\ UNCHANGED <<editorThreads, nextThreadId, nextRequest>>
    /\ UNCHANGED <<dispatchVars, trunc, asm, hist, prompt, panel, req>>
    /\ Render(IF call.live THEN FALSE ELSE isTyping, inflight \ {call})

\* the threads the store starts with: none, or a thread of an earlier
\* session that persist has stored (threads are persisted, activeThreadId
\* is not)
PersistedThreads ==
    {<<>>} \cup {<<[id |-> 1, range |-> selection, messages |-> <<>>,
                    codeContext |-> getValueInRange(selection)]>> :
                    selection \in Selections}

\* the application as it starts: the persisted threads, no tab selected,
\* the editor mounted over these threads
InitThreads ==
    /\ threads \in PersistedThreads
    /\ activeThreadId = 0
    /\ editorThreads = EditorSnapshot(threads)
    /\ isTyping = FALSE
    /\ inflight = {}
    /\ nextThreadId = Len(threads) + 1
    /\ nextRequest = 1
    /\ resolved = <<>>
    /\ TruncIdle
    /\ AsmIdle
    /\ HistIdle
    /\ PromptIdle
    /\ PanelIdle
    /\ RequestIdle
    /\ DispatchIdle

NextThreads ==
    \/ handleNewChat
    \/ \E selection \in Selections : handleAskAI(selection)
    \/ \E id \in 1..MaxThreads : tabClick(id)
    \/ \E id \in 1..MaxThreads : tabClose(id)
    \/ \E l \in Languages : setLanguage(l)
    \/ \E lineNumber \in 1..Len(EditorLines) : onMouseDown(lineNumber)
    \/ handleSend
    \/ \E call \in inflight : handleSendResolves(call)
    \/ \E call \in inflight : handleSendRejects(call)

SpecThreads == InitThreads /\ [][NextThreads]_vars

\* s is an initial part of t
IsPrefix(s, t) == Len(s) <= Len(t) /\ SubSeq(t, 1, Len(s)) = s

\* C18: in every step, each thread that is there before and after the step
\* keeps its id, its codeContext and its range, and its messages after the
\* step are its messages before the step with messages added at the end.
C18_ThreadsAppendOnly ==
    [][\A i \in DOMAIN threads : \A j \in DOMAIN threads' :
          threads[i].id = threads'[j].id
             => /\ threads'[j].codeContext = threads[i].codeContext
                /\ threads'[j].range = threads[i].range
                /\ IsPrefix(threads[i].messages, threads'[j].messages)]_vars

\* a thread made from a selection holds a question and its answer, after
\* another thread was made and removed
C18_Witness ==
    /\ Len(threads) = 1
    /\ nextThreadId = 3
    /\ threads[1].id = 1
    /\ ~threads[1].range.isNull
    /\ threads[1].codeContext = "let a = 1;\nlet b = 2;"
    /\ Len(threads[1].messages) = 2
    /\ threads[1].messages[2].role = "assistant"

\* C19 as stated: with the request of one tab unresolved, the user can send
\* in another tab: whenever the thread shown has no request of its own in
\* flight, its input and send button are not disabled by isTyping.
C19_OtherTabCanSend ==
    (/\ HasThread(threads, activeThreadId)
     /\ \A c \in inflight : c.threadId # activeThreadId)
       => ~isTyping

\* the answers in the messages ms, in their order
Answers(ms) == SelectSeq(ms, LAMBDA m : m.role = "assistant")

\* C20: in every thread the assistant messages stand in the order in which
\* their requests were answered, whatever the order in which they were sent.
C20_AnswersInResolutionOrder ==
    \A i \in DOMAIN threads :
       LET as == Answers(threads[i].messages)
           rs == SelectSeq(resolved, LAMBDA r : r.threadId = threads[i].id)
       IN  /\ Len(as) = Len(rs)
           /\ \A k \in 1..Len(as) : as[k].content = "a" \o ToString(rs[k].rid)

\* the second request of a thread was answered before the first: its answer
\* stands before the answer to the first
C20_Witness ==
    \E i \in DOMAIN threads :
       LET ms == threads[i].messages
       IN  /\ Len(ms) = 4
           /\ ms[1].content = "q1" /\ ms[2].content = "q2"
           /\ ms[3].content = "a2" /\ ms[4].content = "a1"

(***************************************************************************)
(* The dispatch pipeline against the store and the handler (claims on Spec) *)
(***************************************************************************)
\* a step of the pipeline: of sendMessage, of the network or of the handler
PipelineStep == pc' # pc \/ net' # net \/ hpc' # hpc \/ result' # result

\* C21: sendMessage reads apiKey, openFiles and language when it is called
\* and not again: the key and the payload of an invocation stay what they
\* were at the call while it waits, the credential checks and the direct
\* call go by that key whatever the store holds by then, and no step of the
\* pipeline changes apiKey, openFiles, language or threads.
C21_StoreReadOnce ==
    [][/\ (pc' = "proxy_wait" /\ pc # "proxy_wait")
             => /\ key' = apiKey
                /\ body'.language = language
                /\ \E c \in CodeContexts : body'.codeContext = EnhancedContext(c, openFiles)
       /\ pc \in {"proxy_wait", "direct_wait"} => (key' = key /\ body' = body)
       /\ (pc = "proxy_wait" /\ pc' = "direct_wait") => HasSkPrefix(key)
       /\ (pc = "proxy_wait" /\ result'.via = "cred_missing") => Falsy(key)
       /\ (pc = "proxy_wait" /\ result'.via = "cred_invalid")
             => (~Falsy(key) /\ ~HasSkPrefix(key))
       /\ PipelineStep => (/\ apiKey' = apiKey /\ openFiles' = openFiles
                           /\ language' = language /\ threads' = threads)]_vars

\* the key was removed from the store and a file was closed while the proxy
\* call was in flight: the direct call goes on with the key and the files
\* read at the call
C21_Witness ==
    /\ pc = "direct_wait"
    /\ key = Str("sk-test")
    /\ apiKey = Str("")
    /\ openFiles = <<>>
    /\ Includes(body.codeContext, "## Other Open Files:")

\* how often the event e stands in the trace of the invocation
Count(e) == Cardinality({i \in 1..Len(trace) : trace[i] = e})

\* C22: an invocation issues one proxy request and at most one direct call;
\* it goes from the wait for the proxy to the wait for the direct call or to
\* an end, from the wait for the direct call to an end, and never back; at an
\* end it is either resolved or rejected and stays so until the next call of
\* sendMessage; while it waits, the call it waits for is outstanding.
C22_LinearNoRetry ==
    [][/\ pc' # "idle" => (Count("proxy_post")' = 1 /\ Count("provider_call")' <= 1)
       /\ pc' = "direct_wait" => Count("provider_call")' = 1
       /\ pc' = "proxy_wait" => net'.stage # "none"
       /\ pc' \in {"resolved", "rejected"} <=> result'.state = pc'
       /\ pc' \in {"idle", "proxy_wait", "direct_wait"} <=> result' = Pending
       /\ pc = "proxy_wait" => pc' \in {"proxy_wait", "direct_wait", "resolved", "rejected"}
       /\ pc = "direct_wait" => pc' \in {"direct_wait", "resolved", "rejected"}
       /\ pc \in {"resolved", "rejected"}
             => \/ (pc' = pc /\ result' = result /\ trace' = trace)
                \/ (sends' = sends + 1 /\ pc' = "proxy_wait")]_vars

\* the longest path: the proxy request, the credential check, the direct
\* call, and its rejection
C22_Witness ==
    /\ pc = "rejected"
    /\ result.via = "direct_error"
    /\ trace = <<"proxy_post", "cred_check", "provider_call">>
    /\ net = NoRequest

(***************************************************************************)
(* hooks/useResizablePanel.ts                                              *)
(***************************************************************************)
MaxDelta == 3

\* Math.max and Math.min: NaN if an argument is NaN
MathMax(a, b) ==
    IF a.kind = "nan" \/ b.kind = "nan" THEN NaN
    ELSE IF a.kind = "pinf" \/ b.kind = "pinf" THEN PlusInfinity
    ELSE IF a.kind = "ninf" THEN b
    ELSE IF b.kind = "ninf" THEN a
    ELSE IF a.v >= b.v THEN a ELSE b

MathMin(a, b) ==
    IF a.kind = "nan" \/ b.kind = "nan" THEN NaN
    ELSE IF a.kind = "ninf" \/ b.kind = "ninf" THEN MinusInfinity
    ELSE IF a.kind = "pinf" THEN b
    ELSE IF b.kind = "pinf" THEN a
    ELSE IF a.v <= b.v THEN a ELSE b

\* a - b
Minus(a, b) ==
    IF a.kind = "nan" \/ b.kind = "nan" THEN NaN
    ELSE IF a.kind = "fin" /\ b.kind = "fin" THEN Fin(a.v - b.v)
    ELSE IF a.kind = "fin" THEN (IF b.kind = "pinf" THEN MinusInfinity ELSE PlusInfinity)
    ELSE IF b.kind = "fin" THEN a
    ELSE IF a.kind = b.kind THEN NaN ELSE a

\* (deltaY / containerHeight) * 100 for integers deltaY and containerHeight;
\* division by zero gives NaN for 0 / 0 and an infinity otherwise.  The
\* drags of this model have a quotient that is an integer and exact in
\* double arithmetic.
DeltaPercent(deltaY, containerHeight) ==
    IF containerHeight = 0
    THEN (IF deltaY = 0 THEN NaN
          ELSE IF deltaY > 0 THEN PlusInfinity ELSE MinusInfinity)
    ELSE Fin((deltaY * 100) \div containerHeight)

\* Math.min(Math.max(height, MIN_HEIGHT), MAX_HEIGHT)
Clamp(height) == MathMin(MathMax(height, Fin(MIN_HEIGHT)), Fin(MAX_HEIGHT))

\* the heights setHeight is called with, and the drags: the pixels moved
\* and the height of the container, which is that of its bounding
\* rectangle and may be 0
PanelHeights == {5, 15, 50, 80, 95}
Drags ==
    {<<d, 100>> : d \in (-MaxDelta)..MaxDelta}
       \cup {<<-100, 1000>>, <<100, 1000>>}
       \cup {<<d, 0>> : d \in {-1, 0, 1}}

setHeight(height) ==
    /\ panel' = [panel EXCEPT !.chatPanelHeight = Clamp(Fin(height))]
    /\ UNCHANGED <<dispatchVars, trunc, asm, hist, prompt, threadVars, req>>

\* handleDrag as App calls it: from handleMouseMove, which returns at once
\* unless isDragging
handleDrag(deltaY, containerHeight) ==
    /\ panel.isDragging
    /\ LET deltaPercent == DeltaPercent(deltaY, containerHeight)
           newHeight == Minus(panel.chatPanelHeight, deltaPercent)
       IN  panel' = [panel EXCEPT !.chatPanelHeight = Clamp(newHeight)]
    /\ UNCHANGED <<dispatchVars, trunc, asm, hist, prompt, threadVars, req>>

startDrag ==
    /\ panel' = [panel EXCEPT !.isDragging = TRUE]
    /\ UNCHANGED <<dispatchVars, trunc, asm, hist, prompt, threadVars, req>>

endDrag ==
    /\ panel' = [panel EXCEPT !.isDragging = FALSE]
    /\ UNCHANGED <<dispatchVars, trunc, asm, hist, prompt, threadVars, req>>

InitPanel ==
    /\ PanelIdle
    /\ RequestIdle
    /\ TruncIdle
    /\ AsmIdle
    /\ HistIdle
    /\ PromptIdle
    /\ ThreadsIdle
    /\ DispatchIdle

NextPanel ==
    \/ \E height \in PanelHeights : setHeight(height)
    \/ \E d \in Drags : handleDrag(d[1], d[2])
    \/ startDrag
    \/ endDrag

SpecPanel == InitPanel /\ [][NextPanel]_vars

\* C23: the height of the chat panel is a number from 15 to 80 after any
\* calls of setHeight and handleDrag.
C23_HeightWithinBounds ==
    /\ panel.chatPanelHeight.kind = "fin"
    /\ panel.chatPanelHeight.v >= 15
    /\ panel.chatPanelHeight.v <= 80

\* C24: activeThreadId is null or the id of a thread in the store.
C24_ActiveThreadExists ==
    activeThreadId = 0 \/ HasThread(threads, activeThreadId)


\* C25: activeFileId is null or the id of a file in openFiles; removing the
\* active file does not leave activeFileId on the removed file.
C25_ActiveFileOpen ==
    activeFileId = Null \/ \E i \in DOMAIN openFiles : openFiles[i].id = activeFileId.v

\* C26: when a request resolves, its answer is appended to the thread whose
\* handleSend issued it, whichever thread is active, and every other thread
\* is left as it was; when that thread has been removed the thread list is
\* unchanged.
C26_AnswerToIssuingThread ==
    [][resolved' # resolved =>
         LET r == resolved'[Len(resolved')]
         IN  /\ Len(threads') = Len(threads)
             /\ \A i \in DOMAIN threads :
                   IF threads[i].id = r.threadId
                   THEN LET ms == threads[i].messages
                            ns == threads'[i].messages
                        IN  /\ [threads'[i] EXCEPT !.messages = ms] = threads[i]
                            /\ Len(ns) = Len(ms) + 1
                            /\ SubSeq(ns, 1, Len(ms)) = ms
                            /\ ns[Len(ns)].role = "assistant"
                            /\ ns[Len(ns)].id = 2 * r.rid
                   ELSE threads'[i] = threads[i]
             /\ (~HasThread(threads, r.threadId) => threads' = threads)]_vars

\* one request answered in a thread that is not the active one, another
\* resolved after its thread was closed
C26_Witness ==
    /\ \E k \in DOMAIN resolved : ~HasThread(threads, resolved[k].threadId)
    /\ \E k \in DOMAIN resolved : \E i \in DOMAIN threads :
          /\ threads[i].id = resolved[k].threadId
          /\ threads[i].id # activeThreadId
          /\ \E m \in DOMAIN threads[i].messages :
                threads[i].messages[m].id = 2 * resolved[k].rid

\* the requests whose sendMessage has thrown
ThrownRequests(calls, done, next) ==
    {rid \in 1..(next - 1) : /\ ~\E c \in calls : c.rid = rid
                             /\ ~\E k \in DOMAIN done : done[k].rid = rid}

HoldsMessage(ts, id) ==
    \E i \in DOMAIN ts : \E m \in DOMAIN ts[i].messages : ts[i].messages[m].id = id

\* C27: when the sendMessage of a request throws, the threads are left as
\* they are, the question of the request still in its thread and no answer
\* for it in any thread, then or later; when a request ends, by an answer
\* or by an error, the isTyping of the ThreadView that issued it is false,
\* so that handleSend is open again.
C27_RejectionClearsTyping ==
    [][/\ \A rid \in ThrownRequests(inflight', resolved', nextRequest') :
             ~HoldsMessage(threads', 2 * rid)
       /\ \A c \in inflight :
             (~\E d \in inflight' : d.rid = c.rid) =>
                /\ c.live => ~isTyping'
                /\ resolved' = resolved =>
                      /\ threads' = threads
                      /\ \A i \in DOMAIN threads' :
                            threads'[i].id = c.threadId =>
                               \E m \in DOMAIN threads'[i].messages :
                                  threads'[i].messages[m].id = 2 * c.rid - 1]_vars

\* the first request was rejected: its question is in the active thread,
\* no answer, nothing in flight, and the thread accepts a send
C27_Witness ==
    /\ 1 \in ThrownRequests(inflight, resolved, nextRequest)
    /\ inflight = {}
    /\ ~isTyping
    /\ nextRequest <= MaxRequests
    /\ \E i \in DOMAIN threads :
          /\ threads[i].id = activeThreadId
          /\ Len(threads[i].messages) = 1
          /\ threads[i].messages[1].id = 1
          /\ threads[i].messages[1].role = "user"

(***************************************************************************)
(* api/chat.ts : handler under any request.  The endpoint is public: a     *)
(* request reaches it with any method, and the caller that awaits the      *)
(* reply treats it as sendViaProxy and the catch block of sendMessage do.  *)
(***************************************************************************)
\* req.method
Methods == {"POST", "GET"}

InitHandler ==
    /\ AuxIdle
    /\ apiKey \in {Null} \cup {Str(k) : k \in Keys}
    /\ key = apiKey
    /\ openFiles = <<>>
    /\ language = "javascript"
    /\ activeFileId = Null
    /\ nextFileId = 0
    /\ serverKey \in {Null, Str(""), Str("sk-server")}
    /\ pc = "proxy_wait"
    /\ \E c \in CodeContexts, u \in UserMessages, h \in Histories :
          body = [codeContext |-> EnhancedContext(c, openFiles),
                  userMessage |-> u,
                  history |-> limitedHistory(h),
                  language |-> language]
    /\ \E method \in Methods :
          net = [stage |-> "request", method |-> method, res |-> NoReply]
    /\ hpc = "idle"
    /\ proxyReply = NoReply
    /\ proxyFailure = NoFailure
    /\ directRaw = Null
    /\ result = Pending
    /\ trace = <<"proxy_post">>
    /\ sends = 1

NextHandler ==
    \/ handler
    \/ \E c \in ProviderContents : handlerProviderResolves(c)
    \/ \E m \in ProviderFailures : handlerProviderFails(m)
    \/ proxyResponds
    \/ \E c \in ProviderContents : directResolves(c)
    \/ \E m \in ProviderFailures : directFails(m)

SpecHandler == InitHandler /\ [][NextHandler]_vars

\* the replies of the handler, by status and error text
HandlerReplyKinds ==
    {<<405, Str("Method not allowed")>>,
     <<500, Str("OpenAI API key not configured on server")>>,
     <<400, Str("Missing required fields: codeContext, userMessage")>>,
     <<429, Str("Rate limit exceeded. Please wait a moment and try again.")>>,
     <<400, Str("The code is too long to analyze. Try selecting a smaller portion.")>>,
     <<401, Str("Invalid API key configured on server.")>>,
     <<500, Str("Failed to get AI response. Please try again.")>>,
     <<200, Null>>}

\* C28: every reply of the handler is one of the eight kinds; when the
\* caller receives a reply that is not 2xx it goes on to the credential
\* check of the fallback exactly when the reply is the 500 "not configured"
\* one, and otherwise rejects with the error text of the reply, with no
\* credential check and no provider call; a 2xx reply resolves.
C28_OnlyNotConfiguredFallsBack ==
    [][(pc = "proxy_wait" /\ net.stage = "response" /\ pc' # pc) =>
          LET res == net.res
          IN  /\ <<res.status, res.error>> \in HandlerReplyKinds
              /\ IF res.status \in 200..299
                 THEN pc' = "resolved" /\ trace' = trace
                 ELSE IF res.status = 500 /\ res.error = Str(NotConfiguredMsg)
                 THEN /\ trace' # trace
                      /\ trace'[Len(trace) + 1] = "cred_check"
                      /\ result'.via # "proxy_error"
                 ELSE /\ pc' = "rejected"
                      /\ result' = Rejected("proxy_error", res.error.v)
                      /\ trace' = trace]_vars

\* a 405 reply rejected to a caller whose key would have allowed the
\* direct call
C28_Witness ==
    /\ proxyReply = MethodNotAllowedReply
    /\ HasSkPrefix(key)
    /\ pc = "rejected"
    /\ result = Rejected("proxy_error", "Method not allowed")
    /\ trace = <<"proxy_post">>

\* C30: the handler calls the provider only with a non-empty codeContext
\* and userMessage; with a key on the server, a request whose assembled
\* context is empty is answered by the handler with the 400 "Missing
\* required fields" reply, and the caller that receives this reply is
\* rejected with its text, with no credential check and no direct call.
C30_EmptyContextRejected ==
    /\ hpc = "provider_wait" => (body.codeContext # "" /\ body.userMessage # "")
    /\ (body.codeContext = "" /\ ~Falsy(serverKey) /\ net.stage = "response")
          => \/ net.res = MissingFieldsReply
             \/ (net.res.error.isNull /\ net.res.status \in PlatformStatuses)
    /\ proxyReply = MissingFieldsReply
          => /\ pc = "rejected"
             /\ result = Rejected("proxy_error", MissingFieldsMsg)
             /\ trace = <<"proxy_post">>

\* a general chat (empty context, no open file) sent with a valid key in the
\* store to a configured proxy
C30_Witness ==
    /\ body.codeContext = ""
    /\ openFiles = <<>>
    /\ serverKey = Str("sk-server")
    /\ key = Str("sk-test")
    /\ proxyReply = MissingFieldsReply
    /\ pc = "rejected"
    /\ result.value = MissingFieldsMsg

(***************************************************************************)
(* The provider request of the two paths: OpenAIService.sendMessage in the *)
(* browser and the handler of api/chat.ts behind the proxy, each with its  *)
(* own detectLanguage and buildSystemPrompt.                               *)
(***************************************************************************)
\* api/chat.ts : detectLanguage
serverDetectLanguage(code, hint) ==
    IF hint # "" /\ hint # "plaintext" THEN hint
    ELSE IF Includes(code, "import React") \/ Includes(code, "useState") \/ Includes(code, "jsx")
         THEN "typescript/react"
    ELSE IF Includes(code, "def ") /\ Includes(code, ":") THEN "python"
    ELSE IF Includes(code, "func ") /\ Includes(code, "package ") THEN "go"
    ELSE IF Includes(code, "fn ") /\ Includes(code, "let mut") THEN "rust"
    ELSE IF Includes(code, "public class") \/ Includes(code, "private void") THEN "java"
    ELSE IF Includes(code, "#include") \/ Includes(code, "std::") THEN "cpp"
    ELSE IF Includes(code, "const ") \/ Includes(code, "let ") \/ Includes(code, "function ")
         THEN "javascript"
    ELSE IF Includes(code, "interface ") \/ Includes(code, ": string") \/ Includes(code, ": number")
         THEN "typescript"
    ELSE IF Includes(code, "<html") \/ Includes(code, "<!DOCTYPE") THEN "html"
    ELSE IF Includes(code, "{") /\ Includes(code, ":") /\ Includes(code, ";") THEN "css"
    ELSE IF hint # "" THEN hint ELSE "unknown"

\* the opening of the handler's prompt
ServerPromptHead(detectedLang, lineCount, codeContext) ==
    "You are an expert senior software engineer providing a focused, specific code review. You have deep expertise in " \o detectedLang \o ".\n"
    \o "\n"
    \o "## Code Under Review (" \o ToString(lineCount) \o " lines)\n"
    \o "'''" \o detectedLang \o "\n"
    \o codeContext \o "\n"
    \o "'''\n"

\* the block the handler adds for a large selection
ServerLargeFileWarning(lineCount) ==
    "\n"
    \o "## LARGE FILE WARNING (" \o ToString(lineCount) \o " lines)\n"
    \o "This is a large code selection. When providing improved code:\n"
    \o "- You MUST still return the complete code block, but prioritize the most important changes\n"
    \o "- Make sure your response completes - don't let it get cut off\n"
    \o "- If the code is too large to return completely, clearly state this and provide the most critical sections\n"

\* the instructions the handler's prompt ends with
ServerPromptInstructions(detectedLang) ==
    "\n"
    \o "## CRITICAL INSTRUCTIONS - READ CAREFULLY\n"
    \o "\n"
    \o "### Be Specific, Not Generic\n"
    \o "- **NEVER** give generic advice like \"consider adding error handling\" without pointing to the exact location\n"
    \o "- **ALWAYS** reference specific function names, variable names, or line numbers from the code above\n"
    \o "- **ALWAYS** explain issues in terms of THIS code, not hypothetical scenarios\n"
    \o "- If the code has no issues, say \"This code looks good\" and explain why briefly\n"
    \o "\n"
    \o "### What Makes a Good vs Bad Response\n"
    \o "\n"
    \o "**BAD (generic, unhelpful):**\n"
    \o "- \"Consider adding input validation\"\n"
    \o "- \"You might want to add error handling\"\n"
    \o "- \"Consider using TypeScript types\"\n"
    \o "\n"
    \o "**GOOD (specific, actionable):**\n"
    \o "- \"The 'calculateTotal' function on line 5 doesn't handle the case where 'items' is null\"\n"
    \o "- \"The 'userId' parameter in 'fetchUser(userId)' should be validated before the API call\"\n"
    \o "- \"The 'data' variable is typed as 'any' - specify the expected shape: '{ name: string; age: number }'\"\n"
    \o "\n"
    \o "### Review Focus Areas for " \o detectedLang \o "\n"
    \o "1. **Bugs**: Logic errors, null handling, async issues, edge cases\n"
    \o "2. **Security**: Injection vulnerabilities, data exposure, auth flaws\n"
    \o "3. **Performance**: Unnecessary operations, memory issues, N+1 queries\n"
    \o "4. **Quality**: Naming, complexity, duplication, error handling\n"
    \o "\n"
    \o "### Response Format\n"
    \o "1. **Quick Summary**: One sentence describing what this code does and your main finding\n"
    \o "2. **Specific Findings**: List concrete issues with exact references to the code\n"
    \o "3. **Improved Code**: If suggesting changes, provide the COMPLETE improved code\n"
    \o "\n"
    \o "### Code Suggestions - CRITICAL\n"
    \o "- **ALWAYS return the ENTIRE code block** with your changes applied, not just the modified portion\n"
    \o "- The user will use \"Apply Changes\" to replace their selection with your code block\n"
    \o "- If you only return a snippet, the rest of their code will be deleted\n"
    \o "- Use '''" \o detectedLang \o " code blocks\n"
    \o "- Make minimal changes to the code itself, but ALWAYS include the full context\n"
    \o "- Include brief inline comments explaining significant changes\n"
    \o "\n"
    \o "**Example - WRONG (partial code):**\n"
    \o "'''" \o detectedLang \o "\n"
    \o "// Just showing the fix:\n"
    \o "if (items != null) {\n"
    \o "    return items.reduce((a, b) => a + b, 0);\n"
    \o "}\n"
    \o "'''\n"
    \o "\n"
    \o "**Example - CORRECT (complete code):**\n"
    \o "'''" \o detectedLang \o "\n"
    \o "function calculateTotal(items) {\n"
    \o "    // Added null check\n"
    \o "    if (items == null) {\n"
    \o "        return 0;\n"
    \o "    }\n"
    \o "    return items.reduce((a, b) => a + b, 0);\n"
    \o "}\n"
    \o "'''"

\* the handler's prompt without the language of the request
serverBuildSystemPrompt_Unhinted(codeContext, lang) ==
    LET detectedLang == serverDetectLanguage(codeContext, "")
        lineCount == SplitLength(codeContext)
        isLargeFile == lineCount > 100
    IN  ServerPromptHead(detectedLang, lineCount, codeContext)
        \o (IF isLargeFile THEN ServerLargeFileWarning(lineCount) ELSE "")
        \o ServerPromptInstructions(detectedLang)

\* api/chat.ts : buildSystemPrompt
serverBuildSystemPrompt(codeContext, lang) ==
    LET detectedLang == serverDetectLanguage(codeContext, lang)
        lineCount == SplitLength(codeContext)
        isLargeFile == lineCount > 100
    IN  ServerPromptHead(detectedLang, lineCount, codeContext)
        \o (IF isLargeFile THEN ServerLargeFileWarning(lineCount) ELSE "")
        \o ServerPromptInstructions(detectedLang)

NoProviderRequest == [sent |-> FALSE]

\* OpenAIService.sendMessage: the arguments of chat.completions.create
OpenAIService_sendMessage(codeContext, userMessage, history, lang) ==
    LET systemPrompt == buildSystemPrompt(codeContext, IF lang = "" THEN "unknown" ELSE lang)
    IN  [sent |-> TRUE,
         messages |-> <<[role |-> "system", content |-> systemPrompt]>>
                      \o history
                      \o <<[role |-> "user", content |-> userMessage]>>,
         model |-> "gpt-4o",
         temperature |-> "0.3",
         max_tokens |-> 16000]

\* sendViaProxy: JSON.stringify({ codeContext, userMessage, history, language })
\* as the handler reads it from req.body; of a history entry the role and
\* the content are what the JSON text carries
JSONBody(codeContext, userMessage, history, lang) ==
    [codeContext |-> codeContext,
     userMessage |-> userMessage,
     history |-> [i \in DOMAIN history |->
                    [role |-> history[i].role, content |-> history[i].content]],
     language |-> lang]

\* handler: the arguments of chat.completions.create
handlerCompletion(reqBody) ==
    LET systemPrompt == serverBuildSystemPrompt(reqBody.codeContext,
                           IF reqBody.language = "" THEN "unknown" ELSE reqBody.language)
    IN  [sent |-> TRUE,
         messages |-> <<[role |-> "system", content |-> systemPrompt]>>
                      \o reqBody.history
                      \o <<[role |-> "user", content |-> reqBody.userMessage]>>,
         model |-> "gpt-4o",
         temperature |-> "0.3",
         max_tokens |-> 16000]

RequestCodeContexts == {"", "const x = 1;", "def f(x):\n  return x", Lines("x", 101)}
RequestUserMessages == {"review this", ""}
RequestHistories ==
    {<<>>, <<[role |-> "user", content |-> "hi"], [role |-> "assistant", content |-> "hello"]>>}
RequestLanguages == {"typescript", "plaintext", ""}

\* one call with its arguments, neither path taken yet
InitRequest ==
    /\ \E c \in RequestCodeContexts, u \in RequestUserMessages,
          h \in RequestHistories, l \in RequestLanguages :
          req = [stage |-> "call", codeContext |-> c, userMessage |-> u,
                 history |-> h, language |-> l,
                 direct |-> NoProviderRequest,
                 proxy |-> NoProviderRequest, proxyStatus |-> 0]
    /\ TruncIdle
    /\ AsmIdle
    /\ HistIdle
    /\ PromptIdle
    /\ ThreadsIdle
    /\ PanelIdle
    /\ DispatchIdle

\* the direct path: service.sendMessage(enhancedContext, userMessage,
\* limitedHistory, language)
directRequest ==
    /\ req.stage = "call"
    /\ ~req.direct.sent
    /\ req' = [req EXCEPT !.direct = OpenAIService_sendMessage(req.codeContext,
                              req.userMessage, req.history, req.language)]
    /\ UNCHANGED <<dispatchVars, trunc, asm, hist, prompt, threadVars, panel>>

\* the proxy path: sendViaProxy posts the same arguments and the handler,
\* with a key on the server, answers 400 or builds its request
proxyRequest ==
    /\ req.stage = "call"
    /\ req.proxyStatus = 0
    /\ LET reqBody == JSONBody(req.codeContext, req.userMessage, req.history, req.language)
       IN  IF reqBody.codeContext = "" \/ reqBody.userMessage = ""
           THEN req' = [req EXCEPT !.proxyStatus = 400]
           ELSE req' = [req EXCEPT !.proxyStatus = 200,
                                   !.proxy = handlerCompletion(reqBody)]
    /\ UNCHANGED <<dispatchVars, trunc, asm, hist, prompt, threadVars, panel>>

NextRequest ==
    \/ directRequest
    \/ proxyRequest

SpecRequest == InitRequest /\ [][NextRequest]_vars

\* C29: for the same context, user message, history and language, the
\* request the handler sends the provider is the request the direct path
\* sends: the same system prompt first, then the history in its order, then
\* the user message last, with model gpt-4o, temperature 0.3 and at most
\* 16000 tokens.
C29_SameProviderRequest ==
    (req.stage = "call" /\ req.direct.sent /\ req.proxy.sent) =>
        /\ req.proxy = req.direct
        /\ req.proxy.messages[1].content = req.direct.messages[1].content
        /\ LET ms == req.proxy.messages
               n == Len(req.history)
           IN  /\ Len(ms) = n + 2
               /\ ms[1].role = "system"
               /\ \A i \in 1..n : ms[i + 1] = req.history[i]
               /\ ms[n + 2] = [role |-> "user", content |-> req.userMessage]
        /\ req.proxy.model = "gpt-4o"
        /\ req.proxy.temperature = "0.3"
        /\ req.proxy.max_tokens = 16000

\* both requests built for a python selection sent with the language
\* "plaintext" and a history of two messages
C29_Witness ==
    /\ req.stage = "call"
    /\ req.direct.sent
    /\ req.proxy.sent
    /\ req.language = "plaintext"
    /\ Len(req.history) = 2
    /\ Includes(req.proxy.messages[1].content, "You have deep expertise in python.")
    /\ req.direct.messages[4].content = "review this"
====
